---------------------------- MODULE Spec2Model ----------------------------
(***************************************************************************)
(* Review-timeline reconciliation and reviewer statistics of the           *)
(* community PR dashboard (src/lib/github.ts, src/lib/compute.ts).         *)
(*                                                                         *)
(* Time is a grid of whole days 0..MaxTime; the call happens at Now.       *)
(* A timestamp string of the program is the integer of its day; null and   *)
(* undefined are NULL; a missing login is the empty (falsy) string.        *)
(***************************************************************************)
EXTENDS Integers, Sequences, FiniteSets, TLC

VARIABLES
    fn,                \* the fetcher that was called: "merged" or "community"
    pc,                \* position of the call
    daysBack,          \* the daysBack argument, in half days (3 is 1.5 days)
    sinceDate,         \* start of the lookback window
    completedReviews,  \* github.ts:310
    reviewRequests,    \* github.ts:311
    communityReviews,  \* github.ts:475
    cursor,            \* github.ts:312
    hasNextPage,       \* github.ts:313
    pageCount,         \* github.ts:314
    prData,            \* the page the last response delivered (github.ts:329)
    requestLog,        \* cursors of the page requests issued so far
    served,            \* pull requests the server has delivered in this call
    pr,                \* the pull request node under reduction (github.ts:331)
    allPrs,            \* computeReviewerStats: open pull requests
    employeesSet,      \* computeReviewerStats: employees
    statsInput,        \* computeReviewerStats: reviewStatsData
    reviewers,         \* computeReviewerStats: returned list
    openPrs,           \* getOpenPRsGraphQL: prs, the open pull requests kept
    orgs,              \* getAllRepositoriesFromOrgs / GET: organizations to list
    orgIndex,          \* position of the for loop over the organizations
    repoPage,          \* getOrgRepositories / GET: page (github.ts:206)
    repositories,      \* getOrgRepositories: repositories (github.ts:205)
    allRepos,          \* allRepos (github.ts:230), allRepositories of GET
    responses,         \* what the server answered to each listing request
    returned,          \* the value the call returned
    calls,             \* the locals of each of two concurrent calls (github.ts:310-314)
    ui                 \* the state of the Dashboard page and its requests in flight

fetchVars == <<fn, pc, daysBack, sinceDate, completedReviews, reviewRequests,
               communityReviews, cursor, hasNextPage, pageCount, prData,
               requestLog, served>>
statsVars == <<allPrs, employeesSet, statsInput, reviewers>>
orgVars == <<orgs, orgIndex, repoPage, repositories, allRepos, responses, returned>>
vars == <<fn, pc, daysBack, sinceDate, completedReviews, reviewRequests,
          communityReviews, cursor, hasNextPage, pageCount, prData,
          requestLog, served, pr, allPrs, employeesSet, statsInput, reviewers,
          openPrs, orgs, orgIndex, repoPage, repositories, allRepos, responses, returned,
          calls, ui>>

---------------------------------------------------------------------------
(* Bounds of the model *)

\* last day of the time grid; the call happens on that day
MaxTime == 2
\* longest timeline of one pull request in SpecPR
MaxEvents == 3

(* Values *)

NULL == -1
NoLogin == ""
Now == MaxTime
Times == 0..MaxTime
Logins == {"alice", "bob"}
ReviewStates == {"APPROVED", "CHANGES_REQUESTED", "COMMENTED", "PENDING", "DISMISSED"}

\* a review in any state counts
IsActualReview_Any(state) == TRUE

\* ['APPROVED', 'CHANGES_REQUESTED', 'COMMENTED'].includes(item.state)
IsActualReview(state) == state \in {"APPROVED", "CHANGES_REQUESTED", "COMMENTED"}

\* the association GitHub reports for a login in the repository; bob's is
\* missing from the payload
AssociationOf(login) == IF login = "alice" THEN "MEMBER" ELSE ""

---------------------------------------------------------------------------
(* Timeline items (github.ts:285-301) *)

RequestedEvent(login, at) ==
    [typename |-> "ReviewRequestedEvent", login |-> login, at |-> at,
     state |-> "", authorAssociation |-> ""]

ReviewEvent(login, at, state) ==
    [typename |-> "PullRequestReview", login |-> login, at |-> at,
     state |-> state, authorAssociation |-> AssociationOf(login)]

\* a user or a team (no login) is requested; a review has an author or none,
\* and a PENDING review may have no submittedAt
TimelineItems ==
    {RequestedEvent(l, t) : l \in Logins \cup {NoLogin}, t \in Times}
    \cup {ReviewEvent(l, t, s) : l \in Logins, t \in Times, s \in ReviewStates}
    \cup {ReviewEvent(NoLogin, t, "APPROVED") : t \in Times}
    \cup {ReviewEvent(l, NULL, "PENDING") : l \in Logins}

\* GitHub delivers a timeline in chronological order; items of the same day
\* come in any order, an item without a time anywhere
Chronological(items) ==
    \A i, j \in 1..Len(items) :
        (i < j /\ items[i].at # NULL /\ items[j].at # NULL) => items[i].at <= items[j].at

SeqsUpTo(S, n) == UNION {[1..k -> S] : k \in 0..n}

Timelines(n) == {items \in SeqsUpTo(TimelineItems, n) : Chronological(items)}

---------------------------------------------------------------------------
(* The body of the loop over a page's pull requests (github.ts:338-400) *)

HasKey(map, login) == \E i \in 1..Len(map) : map[i].login = login

\* prReviewRequests[login]; the map is held as its entries in insertion order
Lookup(map, login) ==
    IF HasKey(map, login)
    THEN (CHOOSE e \in {map[i] : i \in 1..Len(map)} : e.login = login).requestedAt
    ELSE NULL

\* a later request overwrites the stored time
StoreRequest_LastWins(map, item) ==
    IF ~HasKey(map, item.login)
    THEN Append(map, [login |-> item.login, requestedAt |-> item.at])
    ELSE [i \in 1..Len(map) |->
            IF map[i].login = item.login THEN [map[i] EXCEPT !.requestedAt = item.at]
            ELSE map[i]]

\* every request is stored as an entry of its own
StoreRequest_KeepsAll(map, item) ==
    Append(map, [login |-> item.login, requestedAt |-> item.at])

\* github.ts:343-347: only the first request time of a login is stored
StoreRequest(map, item) ==
    IF ~HasKey(map, item.login)
    THEN Append(map, [login |-> item.login, requestedAt |-> item.at])
    ELSE map

\* github.ts:348-357
StoreReview(reviews, item) ==
    IF IsActualReview(item.state)
    THEN Append(reviews,
                [login |-> item.login,
                 authorAssociation |-> IF item.authorAssociation # "" THEN item.authorAssociation ELSE "NONE",
                 submittedAt |-> item.at])
    ELSE reviews

\* github.ts:342-358: one pass over the timeline
ScanTimeline(items) ==
    LET scan[i \in 0..Len(items)] ==
            IF i = 0 THEN [prReviewRequests |-> <<>>, reviews |-> <<>>]
            ELSE LET acc == scan[i - 1]
                     item == items[i]
                 IN IF item.typename = "ReviewRequestedEvent" /\ item.login # NoLogin
                    THEN [acc EXCEPT !.prReviewRequests = StoreRequest(@, item)]
                    ELSE IF item.typename = "PullRequestReview" /\ item.login # NoLogin
                            /\ item.at # NULL
                    THEN [acc EXCEPT !.reviews = StoreReview(@, item)]
                    ELSE acc
    IN scan[Len(items)]

\* github.ts:361-369: the stored requests inside the window
TrackRequests(map, number, since) ==
    LET track[i \in 0..Len(map)] ==
            IF i = 0 THEN <<>>
            ELSE IF map[i].requestedAt >= since
                 THEN Append(track[i - 1],
                             [reviewerLogin |-> map[i].login,
                              requestedAt |-> map[i].requestedAt,
                              prNumber |-> number])
                 ELSE track[i - 1]
    IN track[Len(map)]

\* the request time is used whether or not it lies inside the window
RequestedAtInRange_AnyTime(map, login, since) == Lookup(map, login)

\* github.ts:382-383
RequestedAtInRange(map, login, since) ==
    LET requestedAt == Lookup(map, login)
    IN IF requestedAt # NULL /\ requestedAt >= since THEN requestedAt ELSE NULL

\* the review is not compared with the request time
ReviewAfterRequest_NoOrder(requestedAtInRange, review) == requestedAtInRange # NULL

\* a review on the day of the request does not count
ReviewAfterRequest_Strict(requestedAtInRange, review) ==
    requestedAtInRange # NULL /\ review.submittedAt > requestedAtInRange

\* github.ts:384
ReviewAfterRequest(requestedAtInRange, review) ==
    requestedAtInRange # NULL /\ review.submittedAt >= requestedAtInRange

\* every review after the request fulfils it
IsFirstReviewForRequest_Every(reviewAfterRequest, fulfilledRequests, review) ==
    reviewAfterRequest

\* github.ts:385
IsFirstReviewForRequest(reviewAfterRequest, fulfilledRequests, review) ==
    reviewAfterRequest /\ review.login \notin fulfilledRequests

\* github.ts:373-400: the reviews inside the window, each with the request it
\* fulfils or null
MatchReviews(map, reviews, node, since) ==
    LET match[i \in 0..Len(reviews)] ==
            IF i = 0 THEN [fulfilledRequests |-> {}, completed |-> <<>>]
            ELSE LET acc == match[i - 1]
                     review == reviews[i]
                     inRange == RequestedAtInRange(map, review.login, since)
                     isFirst == IsFirstReviewForRequest(
                                    ReviewAfterRequest(inRange, review),
                                    acc.fulfilledRequests, review)
                 IN IF review.submittedAt >= since
                    THEN [fulfilledRequests |->
                              IF isFirst THEN acc.fulfilledRequests \cup {review.login}
                              ELSE acc.fulfilledRequests,
                          completed |->
                              Append(acc.completed,
                                     [reviewerLogin |-> review.login,
                                      authorAssociation |-> review.authorAssociation,
                                      submittedAt |-> review.submittedAt,
                                      requestedAt |-> IF isFirst THEN inRange ELSE NULL,
                                      prNumber |-> node.number,
                                      prUrl |-> node.url])]
                    ELSE acc
    IN match[Len(reviews)].completed

\* github.ts:338-400: what one pull request adds to the two lists
ProcessPR(node, since) ==
    LET scanned == ScanTimeline(node.timelineItems)
    IN [reviewRequests |-> TrackRequests(scanned.prReviewRequests, node.number, since),
        completedReviews |-> MatchReviews(scanned.prReviewRequests, scanned.reviews,
                                          node, since)]

MergedNode(number, mergedAt, items) ==
    [number |-> number, url |-> number, mergedAt |-> mergedAt, timelineItems |-> items]

NoNode == MergedNode(0, NULL, <<>>)

---------------------------------------------------------------------------
(* SpecPR: the loop body applied to one pull request with any timeline *)

\* nothing of the repository listing or of the open pull requests is in play
NoRepositories ==
    /\ openPrs = <<>>
    /\ orgs = <<>>
    /\ orgIndex = 0
    /\ repoPage = 0
    /\ repositories = <<>>
    /\ allRepos = <<>>
    /\ responses = <<>>
    /\ returned = NULL

\* nor are two calls at once, or the page
NoListing ==
    /\ NoRepositories
    /\ calls = <<>>
    /\ ui = NULL

InitPR ==
    /\ NoListing
    /\ pr \in {MergedNode(1, Now, items) : items \in Timelines(MaxEvents)}
    /\ sinceDate \in Times
    /\ pc = "pr"
    /\ fn = "merged"
    /\ daysBack = 2 * (Now - sinceDate)
    /\ completedReviews = <<>>
    /\ reviewRequests = <<>>
    /\ communityReviews = <<>>
    /\ cursor = NULL
    /\ hasNextPage = TRUE
    /\ pageCount = 0
    /\ prData = [nodes |-> <<>>, hasNextPage |-> FALSE, endCursor |-> NULL]
    /\ requestLog = <<>>
    /\ served = 1
    /\ allPrs = <<>>
    /\ employeesSet = {}
    /\ statsInput = NULL
    /\ reviewers = NULL

ReducePR ==
    /\ pc = "pr"
    /\ pc' = "reduced"
    /\ reviewRequests' = reviewRequests \o ProcessPR(pr, sinceDate).reviewRequests
    /\ completedReviews' = completedReviews \o ProcessPR(pr, sinceDate).completedReviews
    /\ UNCHANGED <<fn, daysBack, sinceDate, communityReviews, cursor, hasNextPage,
                   pageCount, prData, requestLog, served, pr, statsVars, openPrs, orgVars, calls, ui>>

NextPR == ReducePR

SpecPR == InitPR /\ [][NextPR]_vars


---------------------------------------------------------------------------
(* getCommunityPRReviewStats: the body of its loop (github.ts:501-578) *)

ReadyForReviewEvent(at) ==
    [typename |-> "ReadyForReviewEvent", login |-> NoLogin, at |-> at,
     state |-> "", authorAssociation |-> ""]

CommunityNode(number, createdAt, mergedAt, author, association, items) ==
    [number |-> number, url |-> number, createdAt |-> createdAt, mergedAt |-> mergedAt,
     author |-> author, authorAssociation |-> association, timelineItems |-> items]

\* the logins of the model that github.ts:513 takes for bots
BotLogins == {"dependabot", "renovate[bot]", "release-bot"}

\* github.ts:511-515
IsCommunityAuthor(authorLogin, authorAssociation, employees) ==
    LET isEmployee == authorLogin \in employees
        hasWriteAccess == authorAssociation \in {"COLLABORATOR", "MEMBER", "OWNER"}
        isBot == authorLogin \in BotLogins
    IN ~(isEmployee \/ hasWriteAccess \/ isBot)

\* github.ts:520-532: the first ReadyForReviewEvent, else createdAt
ReadyForReviewAt(node) ==
    LET items == node.timelineItems
        ready == {i \in 1..Len(items) : items[i].typename = "ReadyForReviewEvent"}
    IN IF ready # {}
       THEN items[CHOOSE i \in ready : \A j \in ready : i <= j].at
       ELSE node.createdAt

\* a later review of a reviewer replaces the one stored
ReviewerFirstReview_Latest(items) ==
    LET scan[i \in 0..Len(items)] ==
            IF i = 0 THEN <<>>
            ELSE LET item == items[i]
                 IN IF /\ item.typename = "PullRequestReview"
                       /\ item.login # NoLogin
                       /\ item.at # NULL
                       /\ IsActualReview(item.state)
                    THEN IF HasKey(scan[i - 1], item.login)
                         THEN [k \in 1..Len(scan[i - 1]) |->
                                 IF scan[i - 1][k].login = item.login
                                 THEN [scan[i - 1][k] EXCEPT !.requestedAt = item.at]
                                 ELSE scan[i - 1][k]]
                         ELSE Append(scan[i - 1], [login |-> item.login, requestedAt |-> item.at])
                    ELSE scan[i - 1]
    IN scan[Len(items)]

\* github.ts:536-549: the first substantive review of each reviewer
ReviewerFirstReview(items) ==
    LET scan[i \in 0..Len(items)] ==
            IF i = 0 THEN <<>>
            ELSE LET item == items[i]
                 IN IF /\ item.typename = "PullRequestReview"
                       /\ item.login # NoLogin
                       /\ item.at # NULL
                       /\ IsActualReview(item.state)
                       /\ ~HasKey(scan[i - 1], item.login)
                    THEN Append(scan[i - 1], [login |-> item.login, requestedAt |-> item.at])
                    ELSE scan[i - 1]
    IN scan[Len(items)]

\* github.ts:552-578: one record per reviewer with a positive review time
\* inside the window (the map's entries hold the review time as requestedAt)
CommunityRecords(node, since, first) ==
    LET readyForReviewAt == ReadyForReviewAt(node)
        build[i \in 0..Len(first)] ==
            IF i = 0 THEN <<>>
            ELSE LET firstReviewAt == first[i].requestedAt
                     reviewTimeHours == (firstReviewAt - readyForReviewAt) * 24
                 IN IF reviewTimeHours <= 0 THEN build[i - 1]
                    ELSE IF firstReviewAt >= since
                    THEN Append(build[i - 1],
                                [reviewerLogin |-> first[i].login,
                                 prNumber |-> node.number,
                                 prUrl |-> node.url,
                                 prAuthor |-> node.author,
                                 prAuthorAssociation |->
                                     IF node.authorAssociation # "" THEN node.authorAssociation
                                     ELSE "NONE",
                                 readyForReviewAt |-> readyForReviewAt,
                                 firstReviewAt |-> firstReviewAt,
                                 reviewTimeHours |-> reviewTimeHours])
                    ELSE build[i - 1]
    IN build[Len(first)]

\* github.ts:501-578: what one pull request adds to communityReviews
ProcessCommunityPR(node, since, employees) ==
    LET authorAssociation == IF node.authorAssociation # "" THEN node.authorAssociation
                             ELSE "NONE"
    IN IF node.author = NoLogin THEN <<>>
       ELSE IF ~IsCommunityAuthor(node.author, authorAssociation, employees) THEN <<>>
       ELSE CommunityRecords(node, since, ReviewerFirstReview(node.timelineItems))

(* SpecCommunityPR: the loop body of getCommunityPRReviewStats applied to one
   merged pull request with any timeline *)

\* the employees handed to getCommunityPRReviewStats
Employees == {"alice"}

\* a pull request is marked ready, and reviewed by anyone, in any state
CommunityTimelineItems ==
    {ReadyForReviewEvent(t) : t \in Times}
    \cup {ReviewEvent(l, t, s) : l \in Logins, t \in Times, s \in ReviewStates}
    \cup {ReviewEvent(NoLogin, t, "APPROVED") : t \in Times}
    \cup {ReviewEvent(l, NULL, "PENDING") : l \in Logins}

\* nothing happens on a pull request before it is created
CommunityTimelines(createdAt) ==
    {items \in SeqsUpTo(CommunityTimelineItems, MaxEvents) :
        /\ Chronological(items)
        /\ \A i \in 1..Len(items) : items[i].at # NULL => items[i].at >= createdAt}

InitCommunityPR ==
    /\ NoListing
    /\ \E createdAt \in {0, 1} :
          pr \in {CommunityNode(1, createdAt, Now, author, "", items) :
                    author \in {"carol", "alice"}, items \in CommunityTimelines(createdAt)}
    /\ sinceDate \in Times
    /\ pc = "pr"
    /\ fn = "community"
    /\ daysBack = 2 * (Now - sinceDate)
    /\ completedReviews = <<>>
    /\ reviewRequests = <<>>
    /\ communityReviews = <<>>
    /\ cursor = NULL
    /\ hasNextPage = TRUE
    /\ pageCount = 0
    /\ prData = [nodes |-> <<>>, hasNextPage |-> FALSE, endCursor |-> NULL]
    /\ requestLog = <<>>
    /\ served = 1
    /\ allPrs = <<>>
    /\ employeesSet = Employees
    /\ statsInput = NULL
    /\ reviewers = NULL

\* github.ts:501-578
ReduceCommunityPR ==
    /\ pc = "pr"
    /\ pc' = "reduced"
    /\ communityReviews' = communityReviews \o ProcessCommunityPR(pr, sinceDate, employeesSet)
    /\ UNCHANGED <<fn, daysBack, sinceDate, completedReviews, reviewRequests, cursor,
                   hasNextPage, pageCount, prData, requestLog, served, pr, statsVars,
                   openPrs, orgVars, calls, ui>>

NextCommunityPR == ReduceCommunityPR

SpecCommunityPR == InitCommunityPR /\ [][NextCommunityPR]_vars

---------------------------------------------------------------------------
(* The pagination loops (github.ts:317-406, 481-584) *)

\* github.ts:315, 479
maxPages == 5

\* largest daysBack drawn, in days
MaxDaysBack == 1
\* pull requests the server delivers in one call
MaxServed == 3
\* longest timeline of a pull request of a page
MaxPageEvents == 2

\* daysBack is a JavaScript number: the model draws multiples of a half day,
\* negative, zero, whole and fractional, as counts of half days
DaysBackInputs == (0 - 1)..(2 * MaxDaysBack)

\* github.ts:273-274, 438-439: setDate(getDate() - daysBack) drops the fraction
\* of its argument towards zero, so a fractional daysBack goes back to its
\* floor or to its ceiling, depending on the day of the month of the call
SinceDates(halfDays) == {Now - (halfDays \div 2), Now - ((halfDays + 1) \div 2)}

\* a pull request merged before the window is skipped and the loop goes on
MergedPage_SkipOnly(nodes, since, completed, requests) ==
    LET step[i \in 0..Len(nodes)] ==
            IF i = 0
            THEN [stopped |-> FALSE, completedReviews |-> completed,
                  reviewRequests |-> requests]
            ELSE LET acc == step[i - 1]
                     node == nodes[i]
                 IN IF node.mergedAt # NULL /\ node.mergedAt < since
                    THEN [acc EXCEPT !.stopped = TRUE]
                    ELSE [acc EXCEPT
                            !.completedReviews = @ \o ProcessPR(node, since).completedReviews,
                            !.reviewRequests = @ \o ProcessPR(node, since).reviewRequests]
    IN step[Len(nodes)]

\* the request map is kept from one pull request of the page to the next
MergedPage_SharedArena(nodes, since, completed, requests) ==
    LET step[i \in 0..Len(nodes)] ==
            IF i = 0
            THEN [stopped |-> FALSE, completedReviews |-> completed,
                  reviewRequests |-> requests, items |-> <<>>]
            ELSE LET acc == step[i - 1]
                     node == nodes[i]
                     items == acc.items \o node.timelineItems
                 IN IF acc.stopped THEN acc
                    ELSE IF node.mergedAt # NULL /\ node.mergedAt < since
                    THEN [acc EXCEPT !.stopped = TRUE]
                    ELSE [acc EXCEPT
                            !.completedReviews =
                                @ \o MatchReviews(ScanTimeline(items).prReviewRequests,
                                                  ScanTimeline(node.timelineItems).reviews,
                                                  node, since),
                            !.reviewRequests = @ \o ProcessPR(node, since).reviewRequests,
                            !.items = items]
    IN step[Len(nodes)]

\* github.ts:331-336: the loop over a page stops at the first pull request
\* merged before the window
MergedPage(nodes, since, completed, requests) ==
    LET step[i \in 0..Len(nodes)] ==
            IF i = 0
            THEN [stopped |-> FALSE, completedReviews |-> completed,
                  reviewRequests |-> requests]
            ELSE LET acc == step[i - 1]
                     node == nodes[i]
                 IN IF acc.stopped THEN acc
                    ELSE IF node.mergedAt # NULL /\ node.mergedAt < since
                    THEN [acc EXCEPT !.stopped = TRUE]
                    ELSE [acc EXCEPT
                            !.completedReviews = @ \o ProcessPR(node, since).completedReviews,
                            !.reviewRequests = @ \o ProcessPR(node, since).reviewRequests]
    IN step[Len(nodes)]

\* github.ts:494-499
CommunityPage(nodes, since, employees, community) ==
    LET step[i \in 0..Len(nodes)] ==
            IF i = 0 THEN [stopped |-> FALSE, communityReviews |-> community]
            ELSE LET acc == step[i - 1]
                     node == nodes[i]
                 IN IF acc.stopped THEN acc
                    ELSE IF node.mergedAt # NULL /\ node.mergedAt < since
                    THEN [acc EXCEPT !.stopped = TRUE]
                    ELSE [acc EXCEPT
                            !.communityReviews = @ \o ProcessCommunityPR(node, since, employees)]
    IN step[Len(nodes)]

\* the loop goes on for as long as the server announces a next page
LoopContinues_NoCap(more, count) == more

\* github.ts:317, 481: the loop's condition
LoopContinues(more, count) == more /\ count < maxPages

\* config.limits.maxPrPagesPerRepo, with the value the tests configure
maxPrPagesPerRepo == 10

\* github.ts:169: the loop's condition in getOpenPRsGraphQL
OpenLoopContinues(more, count) == more /\ count < maxPrPagesPerRepo

(* The server: the pages it may deliver *)

\* a pull request is merged before every window of the model or on the day
\* of the call
MergedDays == {0, Now}

PageItems == {RequestedEvent("alice", Now), ReviewEvent("alice", Now, "APPROVED")}

MergedBodies ==
    {MergedNode(0, m, items) : m \in MergedDays, items \in SeqsUpTo(PageItems, MaxPageEvents)}

CommunityItems == {ReadyForReviewEvent(Now - 1), ReviewEvent("bob", Now, "COMMENTED")}

CommunityBodies ==
    {CommunityNode(0, 0, m, a, "", items) :
        m \in MergedDays, a \in {"carol", "alice"},
        items \in SeqsUpTo(CommunityItems, MaxPageEvents - 1)}

\* github.ts:137: a pull request of the open listing; the query asks for open
\* ones and the code filters on the state again
OpenNode(number, state) == [number |-> number, url |-> number, state |-> state]

OpenBodies == {OpenNode(0, state) : state \in {"OPEN", "CLOSED", "MERGED"}}

\* a collection lists each pull request once: the k-th one delivered in a call
\* has number k
Numbered(bodies, from) ==
    [i \in 1..Len(bodies) |-> [bodies[i] EXCEPT !.number = from + i, !.url = from + i]]

\* the cursor after a page is the position of its last pull request, and is
\* null for an empty page; hasNextPage is whatever the server says
Pages(bodySet, from) ==
    {[nodes |-> Numbered(bodies, from),
      hasNextPage |-> more,
      endCursor |-> IF Len(bodies) = 0 THEN NULL ELSE from + Len(bodies)] :
        bodies \in SeqsUpTo(bodySet, MaxServed - from), more \in BOOLEAN}

NoPage == [nodes |-> <<>>, hasNextPage |-> FALSE, endCursor |-> NULL]

(* The calls *)

Init ==
    /\ NoListing
    /\ pc = "idle"
    /\ fn = ""
    /\ daysBack = 0
    /\ sinceDate = 0
    /\ completedReviews = <<>>
    /\ reviewRequests = <<>>
    /\ communityReviews = <<>>
    /\ cursor = NULL
    /\ hasNextPage = FALSE
    /\ pageCount = 0
    /\ prData = NoPage
    /\ requestLog = <<>>
    /\ served = 0
    /\ pr = NoNode
    /\ allPrs = <<>>
    /\ employeesSet = Employees
    /\ statsInput = NULL
    /\ reviewers = NULL

\* zero passes the guard
DaysBackRejected_NegativeOnly(halfDays) == halfDays < 0

\* github.ts:269-271, 434-436: the guard on daysBack
DaysBackRejected(halfDays) == halfDays <= 0

\* github.ts:268-327, 428-491: the call runs up to its first page request; a
\* rejected daysBack throws before anything else
Call(name, halfDays) ==
    /\ pc = "idle"
    /\ fn' = name
    /\ daysBack' = halfDays
    /\ IF DaysBackRejected(halfDays)
       THEN /\ pc' = "failed"
            /\ UNCHANGED <<sinceDate, cursor, hasNextPage, pageCount, requestLog>>
       ELSE /\ sinceDate' \in SinceDates(halfDays)
            /\ cursor' = NULL
            /\ hasNextPage' = TRUE
            /\ pageCount' = 0
            /\ requestLog' = <<NULL>>
            /\ pc' = "awaiting"
    /\ UNCHANGED <<completedReviews, reviewRequests, communityReviews, prData, served,
                   pr, statsVars, openPrs, orgVars, calls, ui>>

getRecentlyMergedPRsWithReviews == \E halfDays \in DaysBackInputs : Call("merged", halfDays)

getCommunityPRReviewStats == \E halfDays \in DaysBackInputs : Call("community", halfDays)

\* the next request repeats the cursor of the request just answered
AfterPage_StaleCursor(page, stopped) ==
    /\ prData' = page
    /\ served' = served + Len(page.nodes)
    /\ hasNextPage' = (page.hasNextPage /\ ~stopped)
    /\ cursor' = page.endCursor
    /\ pageCount' = pageCount + 1
    /\ IF (IF fn = "open"
           THEN OpenLoopContinues(hasNextPage', pageCount')
           ELSE LoopContinues(hasNextPage', pageCount'))
       THEN /\ requestLog' = Append(requestLog, cursor)
            /\ pc' = "awaiting"
       ELSE /\ requestLog' = requestLog
            /\ pc' = "returned"

\* github.ts:403-406, 581-584 and the loop's next turn: the next page request
\* is issued, or the call returns
AfterPage(page, stopped) ==
    /\ prData' = page
    /\ served' = served + Len(page.nodes)
    /\ hasNextPage' = (page.hasNextPage /\ ~stopped)
    /\ cursor' = page.endCursor
    /\ pageCount' = pageCount + 1
    /\ IF (IF fn = "open"
           THEN OpenLoopContinues(hasNextPage', pageCount')
           ELSE LoopContinues(hasNextPage', pageCount'))
       THEN /\ requestLog' = Append(requestLog, cursor')
            /\ pc' = "awaiting"
       ELSE /\ requestLog' = requestLog
            /\ pc' = "returned"

\* github.ts:327-406: a page of merged pull requests arrives
MergedPageReceived ==
    /\ pc = "awaiting"
    /\ fn = "merged"
    /\ \E page \in Pages(MergedBodies, served) :
        LET result == MergedPage(page.nodes, sinceDate, completedReviews, reviewRequests)
        IN /\ completedReviews' = result.completedReviews
           /\ reviewRequests' = result.reviewRequests
           /\ AfterPage(page, result.stopped)
    /\ UNCHANGED <<fn, daysBack, sinceDate, communityReviews, pr, statsVars, openPrs, orgVars, calls, ui>>

\* github.ts:491-584: a page of merged pull requests arrives
CommunityPageReceived ==
    /\ pc = "awaiting"
    /\ fn = "community"
    /\ \E page \in Pages(CommunityBodies, served) :
        LET result == CommunityPage(page.nodes, sinceDate, employeesSet, communityReviews)
        IN /\ communityReviews' = result.communityReviews
           /\ AfterPage(page, result.stopped)
    /\ UNCHANGED <<fn, daysBack, sinceDate, completedReviews, reviewRequests, pr, statsVars, openPrs, orgVars, calls, ui>>

\* github.ts:130-180: getOpenPRsGraphQL runs up to its first page request
getOpenPRsGraphQL ==
    /\ pc = "idle"
    /\ fn' = "open"
    /\ cursor' = NULL
    /\ hasNextPage' = TRUE
    /\ pageCount' = 0
    /\ IF OpenLoopContinues(TRUE, 0)
       THEN requestLog' = <<NULL>> /\ pc' = "awaiting"
       ELSE requestLog' = <<>> /\ pc' = "returned"
    /\ UNCHANGED <<daysBack, sinceDate, completedReviews, reviewRequests,
                   communityReviews, prData, served, pr, statsVars, openPrs, orgVars, calls, ui>>

\* every pull request of the page is kept
OpenOnly_All(nodes) == nodes

\* github.ts:183: const openPrs = prData.nodes.filter(pr => pr.state === 'OPEN')
OpenOnly(nodes) == SelectSeq(nodes, LAMBDA node : node.state = "OPEN")

\* github.ts:180-189: a page of open pull requests arrives
OpenPageReceived ==
    /\ pc = "awaiting"
    /\ fn = "open"
    /\ \E page \in Pages(OpenBodies, served) :
        /\ openPrs' = openPrs \o OpenOnly(page.nodes)
        /\ AfterPage(page, FALSE)
    /\ UNCHANGED <<fn, daysBack, sinceDate, completedReviews, reviewRequests,
                   communityReviews, pr, statsVars, orgVars, calls, ui>>

\* the failure is swallowed and the call returns what it has
PageRequestFailed_ReturnsPartial ==
    /\ pc = "awaiting"
    /\ pc' = "returned"
    /\ UNCHANGED <<fn, daysBack, sinceDate, completedReviews, reviewRequests,
                   communityReviews, cursor, hasNextPage, pageCount, prData,
                   requestLog, served, pr, statsVars, openPrs, orgVars, calls, ui>>

\* github.ts:26-39, 55-57: the request fails and the call throws
PageRequestFailed ==
    /\ pc = "awaiting"
    /\ pc' = "failed"
    /\ UNCHANGED <<fn, daysBack, sinceDate, completedReviews, reviewRequests,
                   communityReviews, cursor, hasNextPage, pageCount, prData,
                   requestLog, served, pr, statsVars, openPrs, orgVars, calls, ui>>

Next ==
    \/ getRecentlyMergedPRsWithReviews
    \/ getCommunityPRReviewStats
    \/ MergedPageReceived
    \/ CommunityPageReceived
    \/ getOpenPRsGraphQL
    \/ OpenPageReceived
    \/ PageRequestFailed

Spec == Init /\ [][Next]_vars

---------------------------------------------------------------------------
(* Listing the repositories of organizations: getOrgRepositories and
   getAllRepositoriesFromOrgs (github.ts:204-246) and the GET handler of the
   repositories route *)

\* organizations in the list handed to getAllRepositoriesFromOrgs
MaxOrgs == 2
\* pages with repositories that the server has for one organization
MaxRepoPages == 2
\* repositories in one page of the model's server
MaxPageRepos == 2

\* per_page of the listing request
per_page == 100

OrgNames == {"all-hands-ai", "openhands"}

\* TARGET_ORGS of the route
TARGET_ORGS == <<"all-hands-ai", "openhands">>

\* a repository as the listing delivers it; full_name is owner/name
Repo(org, name, archived, disabled, stars) ==
    [full_name |-> <<org, name>>, archived |-> archived, disabled |-> disabled,
     stargazers_count |-> stars]

ReposOf(org) ==
    {Repo(org, "sdk", FALSE, FALSE, 1), Repo(org, "old", TRUE, FALSE, 2),
     Repo(org, "off", FALSE, TRUE, 0)}

\* the pages the server may answer with; after MaxRepoPages pages with
\* repositories the next one is empty
RepoPages(org, n) ==
    IF n > MaxRepoPages THEN {<<>>} ELSE SeqsUpTo(ReposOf(org), MaxPageRepos)

\* github.ts:220, the route's filter: !repo.archived && !repo.disabled
ActiveRepos(data) == SelectSeq(data, LAMBDA repo : ~repo.archived /\ ~repo.disabled)

\* github.ts:236: repos.map(repo => repo.full_name)
FullNames(repos) == [i \in 1..Len(repos) |-> repos[i].full_name]

\* the route's sort: the more stars first, stable
SortByStars(list) ==
    LET sorted[i \in 0..Len(list)] ==
            IF i = 0 THEN <<>>
            ELSE LET before == SelectSeq(sorted[i - 1],
                                         LAMBDA r : r.stargazers_count >= list[i].stargazers_count)
                     after == SelectSeq(sorted[i - 1],
                                        LAMBDA r : r.stargazers_count < list[i].stargazers_count)
                 IN before \o <<list[i]>> \o after
    IN sorted[Len(list)]

\* the body of the route's response when the listing loop has ended
RouteResponse(all, fetched) ==
    LET active == ActiveRepos(all)
        formattedRepos ==
            SortByStars([i \in 1..Len(active) |->
                            [full_name |-> active[i].full_name,
                             stargazers_count |-> active[i].stargazers_count]])
    IN [repositories |-> formattedRepos, total |-> Len(formattedRepos),
        organizations |-> fetched]

\* the first listing request of the first organization is issued, or the
\* call returns when there is no organization
StartListing(name, list) ==
    /\ pc = "idle"
    /\ fn' = name
    /\ orgs' = list
    /\ allRepos' = <<>>
    /\ repositories' = <<>>
    /\ responses' = <<>>
    /\ IF Len(list) = 0
       THEN /\ pc' = "returned"
            /\ returned' = IF name = "orgs" THEN <<>> ELSE RouteResponse(<<>>, list)
            /\ UNCHANGED <<orgIndex, repoPage>>
       ELSE /\ pc' = "listing"
            /\ orgIndex' = 1
            /\ repoPage' = 1
            /\ UNCHANGED returned
    /\ UNCHANGED <<daysBack, sinceDate, completedReviews, reviewRequests,
                   communityReviews, cursor, hasNextPage, pageCount, prData,
                   requestLog, served, pr, statsVars, openPrs, calls, ui>>

\* github.ts:229-233
getAllRepositoriesFromOrgs == \E list \in SeqsUpTo(OrgNames, MaxOrgs) : StartListing("orgs", list)

\* the route: ?org=... lists that organization, otherwise TARGET_ORGS
GET ==
    \E specificOrg \in OrgNames \cup {NoLogin} :
        StartListing("route", IF specificOrg # NoLogin THEN <<specificOrg>> ELSE TARGET_ORGS)

\* the for loop moves to the next organization, or the call returns
NextOrg(all) ==
    /\ allRepos' = all
    /\ IF orgIndex < Len(orgs)
       THEN /\ orgIndex' = orgIndex + 1
            /\ repoPage' = 1
            /\ repositories' = <<>>
            /\ pc' = "listing"
            /\ UNCHANGED returned
       ELSE /\ pc' = "returned"
            /\ returned' = IF fn = "orgs" THEN all ELSE RouteResponse(all, orgs)
            /\ UNCHANGED <<orgIndex, repoPage, repositories>>

\* github.ts:209-224, 234-238: a page of the listing arrives
OrgPageReceived ==
    /\ pc = "listing"
    /\ fn = "orgs"
    /\ \E data \in RepoPages(orgs[orgIndex], repoPage) :
        /\ responses' = Append(responses, [index |-> orgIndex, ok |-> TRUE, data |-> data])
        /\ IF Len(data) = 0
           THEN NextOrg(allRepos \o FullNames(repositories))
           ELSE /\ repositories' = repositories \o ActiveRepos(data)
                /\ repoPage' = repoPage + 1
                /\ UNCHANGED <<pc, orgIndex, allRepos, returned>>
    /\ UNCHANGED <<fn, orgs, daysBack, sinceDate, completedReviews, reviewRequests,
                   communityReviews, cursor, hasNextPage, pageCount, prData,
                   requestLog, served, pr, statsVars, openPrs, calls, ui>>

\* the route: a page of the listing arrives
RoutePageReceived ==
    /\ pc = "listing"
    /\ fn = "route"
    /\ \E data \in RepoPages(orgs[orgIndex], repoPage) :
        /\ responses' = Append(responses, [index |-> orgIndex, ok |-> TRUE, data |-> data])
        /\ IF Len(data) = 0 \/ Len(data) < per_page
           THEN NextOrg(allRepos \o data)
           ELSE /\ allRepos' = allRepos \o data
                /\ repoPage' = repoPage + 1
                /\ UNCHANGED <<pc, orgIndex, repositories, returned>>
    /\ UNCHANGED <<fn, orgs, daysBack, sinceDate, completedReviews, reviewRequests,
                   communityReviews, cursor, hasNextPage, pageCount, prData,
                   requestLog, served, pr, statsVars, openPrs, calls, ui>>

\* the failure of one organization ends the whole call
OrgListingFailed_Aborts ==
    /\ pc = "listing"
    /\ pc' = "failed"
    /\ responses' = Append(responses, [index |-> orgIndex, ok |-> FALSE, data |-> <<>>])
    /\ UNCHANGED <<fn, orgs, orgIndex, repoPage, repositories, allRepos, returned,
                   daysBack, sinceDate, completedReviews, reviewRequests,
                   communityReviews, cursor, hasNextPage, pageCount, prData,
                   requestLog, served, pr, statsVars, openPrs, calls, ui>>

\* github.ts:239-242 and the route's inner catch: a listing request fails,
\* the error is logged and the loop goes on with the next organization
OrgListingFailed ==
    /\ pc = "listing"
    /\ responses' = Append(responses, [index |-> orgIndex, ok |-> FALSE, data |-> <<>>])
    /\ NextOrg(allRepos)
    /\ UNCHANGED <<fn, orgs, daysBack, sinceDate, completedReviews, reviewRequests,
                   communityReviews, cursor, hasNextPage, pageCount, prData,
                   requestLog, served, pr, statsVars, openPrs, calls, ui>>

NextOrgs ==
    \/ getAllRepositoriesFromOrgs
    \/ GET
    \/ OrgPageReceived
    \/ RoutePageReceived
    \/ OrgListingFailed

SpecOrgs == Init /\ [][NextOrgs]_vars

---------------------------------------------------------------------------
(* computeReviewerStats (compute.ts:150-279) *)

\* an open pull request, with the fields computeReviewerStats reads
OpenPR(authorLogin, authorType, users) ==
    [authorLogin |-> authorLogin, authorType |-> authorType, isDraft |-> FALSE,
     requestedReviewers |-> [users |-> users, teams |-> <<>>]]

\* the classifier the tests put in place of lib/employees
isEmployee(login, employees) == login \in employees

\* compute.ts:160-175
MaintainersSet(prs, completed) ==
    {prs[i].authorLogin : i \in {j \in 1..Len(prs) : prs[j].authorType = "maintainer"}}
    \cup {completed[i].reviewerLogin :
            i \in {j \in 1..Len(completed) :
                    completed[j].authorAssociation \in {"COLLABORATOR", "MEMBER", "OWNER"}}}

\* the keys of an object, in the order they were first written
KeysInOrder(logins) ==
    LET keys[i \in 0..Len(logins)] ==
            IF i = 0 THEN <<>>
            ELSE IF \E k \in 1..Len(keys[i - 1]) : keys[i - 1][k] = logins[i]
                 THEN keys[i - 1]
                 ELSE Append(keys[i - 1], logins[i])
    IN keys[Len(logins)]

\* a login made of digits alone, without a leading zero, is an array index
\* when it is the key of an object; the model has one such login
ArrayIndexLogins == {"42"}

\* Object.keys of an object whose keys were written in the order given: the
\* array indices first, in ascending order, then the other keys in the order
\* they were first written
ObjectKeys(logins) ==
    SelectSeq(KeysInOrder(logins), LAMBDA k : k \in ArrayIndexLogins)
    \o SelectSeq(KeysInOrder(logins), LAMBDA k : k \notin ArrayIndexLogins)

\* compute.ts:179-183: the requested reviewers of the open pull requests, in
\* the order the loops visit them
PendingLogins(prs) ==
    LET flat[i \in 0..Len(prs)] ==
            IF i = 0 THEN <<>> ELSE flat[i - 1] \o prs[i].requestedReviewers.users
    IN flat[Len(prs)]

\* compute.ts:181, 224: the count an object holds for a key
CountOf(logins, login) == Cardinality({i \in 1..Len(logins) : logins[i] = login})

NoStats == [completedTotal |-> 0, completedRequested |-> 0, completedUnrequested |-> 0,
            reviewTimes |-> <<>>]

\* every review counts as a requested one
AddReview_AlwaysRequested(stats, review) ==
    [stats EXCEPT !.completedTotal = @ + 1, !.completedRequested = @ + 1]

\* the else is missing: every review counts as an unrequested one too
AddReview_NoElse(stats, review) ==
    LET reviewTimeHours == (review.submittedAt - review.requestedAt) * 24
    IN IF review.requestedAt # NULL
       THEN [stats EXCEPT !.completedTotal = @ + 1,
                          !.completedRequested = @ + 1,
                          !.completedUnrequested = @ + 1,
                          !.reviewTimes = IF reviewTimeHours > 0
                                          THEN Append(@, reviewTimeHours) ELSE @]
       ELSE [stats EXCEPT !.completedTotal = @ + 1, !.completedUnrequested = @ + 1]

\* compute.ts:204-217
AddReview(stats, review) ==
    LET reviewTimeHours == (review.submittedAt - review.requestedAt) * 24
    IN IF review.requestedAt # NULL
       THEN [stats EXCEPT !.completedTotal = @ + 1,
                          !.completedRequested = @ + 1,
                          !.reviewTimes = IF reviewTimeHours > 0
                                          THEN Append(@, reviewTimeHours) ELSE @]
       ELSE [stats EXCEPT !.completedTotal = @ + 1, !.completedUnrequested = @ + 1]

\* compute.ts:193-218: reviewerStats[login]
ReviewerStatsOf(completed, login) ==
    LET fold[i \in 0..Len(completed)] ==
            IF i = 0 THEN NoStats
            ELSE IF completed[i].reviewerLogin = login
                 THEN AddReview(fold[i - 1], completed[i])
                 ELSE fold[i - 1]
    IN fold[Len(completed)]

LoginsOf(records) == [i \in 1..Len(records) |-> records[i].reviewerLogin]

\* compute.ts:228-232: a Set keeps its values in the order they were added
AllReviewerLogins(prs, completed, requests) ==
    KeysInOrder(ObjectKeys(PendingLogins(prs))
                \o ObjectKeys(LoginsOf(completed))
                \o ObjectKeys(LoginsOf(requests)))

\* every login with an activity is kept
FilteredLogins_Unfiltered(prs, completed, requests, employees) ==
    AllReviewerLogins(prs, completed, requests)

\* compute.ts:235-237
FilteredLogins(prs, completed, requests, employees) ==
    SelectSeq(AllReviewerLogins(prs, completed, requests),
              LAMBDA login : isEmployee(login, employees)
                             \/ login \in MaintainersSet(prs, completed))

\* compute.ts:242: [...arr].sort((a, b) => a - b)
SortAscending(arr) ==
    LET sorted[i \in 0..Len(arr)] ==
            IF i = 0 THEN <<>>
            ELSE LET before == SelectSeq(sorted[i - 1], LAMBDA x : x <= arr[i])
                     after == SelectSeq(sorted[i - 1], LAMBDA x : x > arr[i])
                 IN before \o <<arr[i]>> \o after
    IN sorted[Len(arr)]

\* the upper of the two central values of an even number of samples
median_UpperCentral(arr) ==
    LET sorted == SortAscending(arr)
        mid == Len(sorted) \div 2
    IN IF Len(arr) = 0 THEN NULL ELSE sorted[mid + 1]

\* compute.ts:240-245; the review times of the model are whole days, so the
\* mean of two of them is a whole number of hours
median(arr) ==
    LET sorted == SortAscending(arr)
        mid == Len(sorted) \div 2
    IN IF Len(arr) = 0 THEN NULL
       ELSE IF Len(sorted) % 2 = 0 THEN (sorted[mid] + sorted[mid + 1]) \div 2
       ELSE sorted[mid + 1]

\* a reviewer without a request has a rate of zero
CompletionRate_ZeroWithoutRequest(completedRequested, requestedTotal) ==
    IF requestedTotal > 0 THEN <<completedRequested * 100, requestedTotal>> ELSE <<0, 1>>

\* compute.ts:258-261: the rate, held as the pair of completedRequested * 100
\* and requestedTotal; null is the empty tuple
CompletionRate(completedRequested, requestedTotal) ==
    IF requestedTotal > 0 THEN <<completedRequested * 100, requestedTotal>> ELSE <<>>

\* compute.ts:248-273
ReviewerOf(login, prs, completed, requests) ==
    LET stats == ReviewerStatsOf(completed, login)
        requestedTotal == CountOf(LoginsOf(requests), login)
    IN [name |-> login,
        pendingCount |-> CountOf(PendingLogins(prs), login),
        completedTotal |-> stats.completedTotal,
        completedRequested |-> stats.completedRequested,
        completedUnrequested |-> stats.completedUnrequested,
        requestedTotal |-> requestedTotal,
        completionRate |-> CompletionRate(stats.completedRequested, requestedTotal),
        medianReviewTimeHours |-> median(stats.reviewTimes)]

\* compute.ts:276: the sort is stable, the larger completedTotal first
SortByCompletedTotal(list) ==
    LET sorted[i \in 0..Len(list)] ==
            IF i = 0 THEN <<>>
            ELSE LET before == SelectSeq(sorted[i - 1],
                                         LAMBDA r : r.completedTotal >= list[i].completedTotal)
                     after == SelectSeq(sorted[i - 1],
                                        LAMBDA r : r.completedTotal < list[i].completedTotal)
                 IN before \o <<list[i]>> \o after
    IN sorted[Len(list)]

\* compute.ts:150-279
computeReviewerStats(prs, reviewStatsData, employees) ==
    LET completed == reviewStatsData.completedReviews
        requests == reviewStatsData.reviewRequests
        filteredLogins == FilteredLogins(prs, completed, requests, employees)
    IN SortByCompletedTotal(
           [i \in 1..Len(filteredLogins) |->
               ReviewerOf(filteredLogins[i], prs, completed, requests)])

(* SpecStats: computeReviewerStats applied to any lists *)

\* most completed reviews, and most review requests, handed to the function
MaxStatReviews == 2
MaxStatRequests == 1
\* pull request numbers of the records handed to the function
MaxStatPrs == 2

\* a completed review carries the association getRecentlyMergedPRsWithReviews
\* stores for its reviewer
\* the logins of the records: a maintainer (alice), two others, one of them
\* made of digits
StatLogins == Logins \cup ArrayIndexLogins

\* the employees handed to computeReviewerStats
StatEmployees == {{}, {"bob", "42"}}

StatReviews ==
    {[reviewerLogin |-> l,
      authorAssociation |-> IF AssociationOf(l) # "" THEN AssociationOf(l) ELSE "NONE",
      submittedAt |-> s, requestedAt |-> r, prNumber |-> n, prUrl |-> n] :
        l \in StatLogins, s \in Times, r \in Times \cup {NULL}, n \in 1..MaxStatPrs}

StatRequests ==
    {[reviewerLogin |-> l, requestedAt |-> 0, prNumber |-> n] :
        l \in Logins, n \in 1..MaxStatPrs}

StatPrLists ==
    {<<>>,
     <<OpenPR("bob", "maintainer", <<"alice", "bob">>)>>,
     <<OpenPR("carol", "community", <<"bob">>)>>}

InitStats ==
    /\ NoListing
    /\ pc = "input"
    /\ allPrs \in StatPrLists
    /\ employeesSet \in StatEmployees
    /\ statsInput \in
          {[completedReviews |-> c, reviewRequests |-> q] :
              c \in SeqsUpTo(StatReviews, MaxStatReviews),
              q \in SeqsUpTo(StatRequests, MaxStatRequests)}
    /\ reviewers = NULL
    /\ fn = ""
    /\ daysBack = 0
    /\ sinceDate = 0
    /\ completedReviews = <<>>
    /\ reviewRequests = <<>>
    /\ communityReviews = <<>>
    /\ cursor = NULL
    /\ hasNextPage = FALSE
    /\ pageCount = 0
    /\ prData = NoPage
    /\ requestLog = <<>>
    /\ served = 0
    /\ pr = NoNode

ComputeReviewerStats ==
    /\ pc = "input"
    /\ pc' = "computed"
    /\ reviewers' = computeReviewerStats(allPrs, statsInput, employeesSet)
    /\ UNCHANGED <<fn, daysBack, sinceDate, completedReviews, reviewRequests,
                   communityReviews, cursor, hasNextPage, pageCount, prData,
                   requestLog, served, pr, allPrs, employeesSet, statsInput,
                   openPrs, orgVars, calls, ui>>

NextStats == ComputeReviewerStats

SpecStats == InitStats /\ [][NextStats]_vars

---------------------------------------------------------------------------
(* SpecTwo: getRecentlyMergedPRsWithReviews called for two repositories at
   once. Every variable of the function is a local of the call
   (github.ts:273, 310-315), so each call has its own record of them; the
   calls take their steps, one page response at a time, in any order. *)

\* pull requests the server of one repository delivers in one call
MaxTwoServed == 1

TwoRepos == {"sdk", "docs"}

\* every variable but calls and ui is at rest
Unused ==
    /\ NoRepositories
    /\ pc = "idle"
    /\ fn = ""
    /\ daysBack = 0
    /\ sinceDate = 0
    /\ completedReviews = <<>>
    /\ reviewRequests = <<>>
    /\ communityReviews = <<>>
    /\ cursor = NULL
    /\ hasNextPage = FALSE
    /\ pageCount = 0
    /\ prData = NoPage
    /\ requestLog = <<>>
    /\ served = 0
    /\ pr = NoNode
    /\ allPrs = <<>>
    /\ employeesSet = Employees
    /\ statsInput = NULL
    /\ reviewers = NULL

TwoBodies ==
    {MergedNode(0, Now, <<RequestedEvent("alice", Now), ReviewEvent("alice", Now, "APPROVED")>>),
     MergedNode(0, Now, <<ReviewEvent("alice", Now, "APPROVED")>>),
     MergedNode(0, 0, <<>>)}

TwoPages(from) ==
    {page \in Pages(TwoBodies, from) : from + Len(page.nodes) <= MaxTwoServed}

\* before the call: nothing is declared yet
NoCall ==
    [pc |-> "idle", sinceDate |-> 0, completedReviews |-> <<>>, reviewRequests |-> <<>>,
     cursor |-> NULL, hasNextPage |-> FALSE, pageCount |-> 0, served |-> 0, pages |-> <<>>]

InitTwo ==
    /\ Unused
    /\ calls = [repo \in TwoRepos |-> NoCall]
    /\ ui = NULL

\* github.ts:268-327: the call for one repository runs up to its first page
\* request
StartCall(repo) ==
    /\ calls[repo].pc = "idle"
    /\ \E halfDays \in DaysBackInputs :
        IF DaysBackRejected(halfDays)
        THEN calls' = [calls EXCEPT ![repo].pc = "failed"]
        ELSE \E since \in SinceDates(halfDays) :
                calls' = [calls EXCEPT ![repo] =
                            [NoCall EXCEPT !.pc = "awaiting", !.sinceDate = since,
                                           !.hasNextPage = TRUE]]
    /\ UNCHANGED <<fetchVars, pr, statsVars, openPrs, orgVars, ui>>

\* the two lists are shared by the calls
CallAfterPage_SharedLists(repo, page) ==
    LET call == calls[repo]
        result == MergedPage(page.nodes, call.sinceDate, call.completedReviews,
                             call.reviewRequests)
        more == page.hasNextPage /\ ~result.stopped
    IN [other \in TwoRepos |->
          IF other = repo
          THEN [call EXCEPT
                  !.completedReviews = result.completedReviews,
                  !.reviewRequests = result.reviewRequests,
                  !.hasNextPage = more,
                  !.cursor = page.endCursor,
                  !.pageCount = @ + 1,
                  !.served = @ + Len(page.nodes),
                  !.pages = Append(@, page),
                  !.pc = IF LoopContinues(more, call.pageCount + 1)
                         THEN "awaiting" ELSE "returned"]
          ELSE [calls[other] EXCEPT
                  !.completedReviews = result.completedReviews,
                  !.reviewRequests = result.reviewRequests]]

\* github.ts:327-406: what the response to a page request does to the locals
\* of the call that awaited it
CallAfterPage(repo, page) ==
    LET call == calls[repo]
        result == MergedPage(page.nodes, call.sinceDate, call.completedReviews,
                             call.reviewRequests)
        more == page.hasNextPage /\ ~result.stopped
    IN [calls EXCEPT ![repo] =
          [call EXCEPT
              !.completedReviews = result.completedReviews,
              !.reviewRequests = result.reviewRequests,
              !.hasNextPage = more,
              !.cursor = page.endCursor,
              !.pageCount = @ + 1,
              !.served = @ + Len(page.nodes),
              !.pages = Append(@, page),
              !.pc = IF LoopContinues(more, call.pageCount + 1)
                     THEN "awaiting" ELSE "returned"]]

CallPageReceived(repo) ==
    /\ calls[repo].pc = "awaiting"
    /\ \E page \in TwoPages(calls[repo].served) : calls' = CallAfterPage(repo, page)
    /\ UNCHANGED <<fetchVars, pr, statsVars, openPrs, orgVars, ui>>

\* github.ts:327: the awaited request throws and so does the call
CallPageFailed(repo) ==
    /\ calls[repo].pc = "awaiting"
    /\ calls' = [calls EXCEPT ![repo].pc = "failed"]
    /\ UNCHANGED <<fetchVars, pr, statsVars, openPrs, orgVars, ui>>

NextTwo ==
    \E repo \in TwoRepos :
        \/ StartCall(repo)
        \/ CallPageReceived(repo)
        \/ CallPageFailed(repo)

SpecTwo == InitTwo /\ [][NextTwo]_vars

---------------------------------------------------------------------------
(* SpecPage: the Dashboard page (src/unnamed/part_003:11-136, 468-486). The
   page keeps data, loading, error, filters and appliedFilters; fetchData
   sends a request and, when the response arrives, stores it with setData.
   A request in flight is known by the filters it was sent with, and a
   response by the filters of its request. *)

\* requests the page sends in one behaviour
MaxRequests == 4

\* part_003:19-29, 470-477: of a FilterState the model varies the age range
AgeRanges == {"all", "7-days", "30-days"}

FilterState(ageRange) == [ageRange |-> ageRange, status |-> "all", noReviewers |-> FALSE]

\* part_003:12, 83: data is null until a response is stored
NoData == [kind |-> "null"]

Response(filters) == [kind |-> "data", filters |-> filters]

\* part_003:12-40: the state of the page when it is first rendered
InitPage ==
    /\ Unused
    /\ calls = <<>>
    /\ ui = [data |-> NoData, loading |-> TRUE, error |-> "",
             filters |-> FilterState("all"), appliedFilters |-> FilterState("all"),
             mounted |-> FALSE, inFlight |-> <<>>, sent |-> 0,
             overlapped |-> FALSE, failures |-> 0]

\* part_003:42-78: fetchData up to its await: the request is in flight
fetchData(page, targetFilters) ==
    [page EXCEPT !.loading = TRUE,
                 !.error = "",
                 !.inFlight = Append(@, targetFilters),
                 !.sent = @ + 1,
                 !.overlapped = @ \/ Len(page.inFlight) >= 1]

\* part_003:92-115: the effects after the first render: the initial load, and
\* the interval is set
InitialLoad ==
    /\ ~ui.mounted
    /\ ui' = fetchData([ui EXCEPT !.mounted = TRUE], ui.appliedFilters)
    /\ UNCHANGED <<fetchVars, pr, statsVars, openPrs, orgVars, calls>>

\* part_003:103-107: the interval fires, two minutes after it was set
AutoRefresh ==
    /\ ui.mounted
    /\ ui.sent < MaxRequests
    /\ ui' = fetchData(ui, ui.appliedFilters)
    /\ UNCHANGED <<fetchVars, pr, statsVars, openPrs, orgVars, calls>>

\* part_003:134-136, 187-189: the Refresh button, disabled while loading
handleRefresh ==
    /\ ui.mounted
    /\ ~ui.loading
    /\ ui.sent < MaxRequests
    /\ ui' = fetchData(ui, ui.appliedFilters)
    /\ UNCHANGED <<fetchVars, pr, statsVars, openPrs, orgVars, calls>>

\* part_003:478-483 and 42-95: a filter is chosen: the handler stores the new
\* filters and fetches with them; appliedFilters has changed, so fetchData is
\* a new callback and the effect of lines 92-95 fetches again
ApplyFilters(newFilters) ==
    /\ ui.mounted
    /\ ui.sent + 2 <= MaxRequests
    /\ ui' = fetchData(fetchData([ui EXCEPT !.filters = newFilters,
                                            !.appliedFilters = newFilters],
                                 newFilters),
                       newFilters)
    /\ UNCHANGED <<fetchVars, pr, statsVars, openPrs, orgVars, calls>>

onChange == \E value \in AgeRanges : ApplyFilters([ui.filters EXCEPT !.ageRange = value])

\* part_003:117-132
handleClearFilters == ApplyFilters(FilterState("all"))

\* what is left of the requests in flight when one has settled
Settled(inFlight, i) ==
    [k \in 1..(Len(inFlight) - 1) |-> IF k < i THEN inFlight[k] ELSE inFlight[k + 1]]

\* part_003:77-88: the response to one of the requests in flight arrives
ResponseArrives ==
    /\ \E i \in 1..Len(ui.inFlight) :
        ui' = [ui EXCEPT !.data = Response(ui.inFlight[i]),
                         !.loading = FALSE,
                         !.inFlight = Settled(@, i)]
    /\ UNCHANGED <<fetchVars, pr, statsVars, openPrs, orgVars, calls>>

\* part_003:78-88: one of the requests in flight fails, or its status is not ok
ResponseFails ==
    /\ \E i \in 1..Len(ui.inFlight) :
        ui' = [ui EXCEPT !.error = "Failed to fetch dashboard data",
                         !.loading = FALSE,
                         !.inFlight = Settled(@, i),
                         !.failures = @ + 1]
    /\ UNCHANGED <<fetchVars, pr, statsVars, openPrs, orgVars, calls>>

NextPage ==
    \/ InitialLoad
    \/ AutoRefresh
    \/ handleRefresh
    \/ onChange
    \/ handleClearFilters
    \/ ResponseArrives
    \/ ResponseFails

SpecPage == InitPage /\ [][NextPage]_vars

---------------------------------------------------------------------------
(* computeDashboardData (compute.ts:281-345): the KPIs of the dashboard,
   computed from the open pull requests, the employees and the review
   history. A formatted number is held as the pair of the number and the
   text that follows it. *)

MaxDashPrs == 2

\* types.ts:14-35: the fields of a PR that compute.ts reads
DashboardPR(authorLogin, authorAssociation, authorType, isDraft, users, teams, responded, reviewed) ==
    [authorLogin |-> authorLogin, authorAssociation |-> authorAssociation,
     authorType |-> authorType, isDraft |-> isDraft,
     requestedReviewers |-> [users |-> users, teams |-> teams],
     createdAt |-> 0, firstHumanResponseAt |-> responded, firstReviewAt |-> reviewed]

\* the classifier the tests put in place of lib/employees
isCommunityPR(authorLogin, employees, authorAssociation) ==
    LET isBot == authorLogin \in BotLogins
        isEmployeeUser == authorLogin \in employees
        hasWriteAccess == authorAssociation \in {"COLLABORATOR", "MEMBER", "OWNER"}
    IN ~isBot /\ ~isEmployeeUser /\ ~hasWriteAccess

\* Math.round(n / d) for n >= 0 and d > 0: halves go up
Round(n, d) == (2 * n + d) \div (2 * d)

\* drafts are kept
NonDraftPrs_All(prs) == prs

\* compute.ts:287
NonDraftPrs(prs) == SelectSeq(prs, LAMBDA p : ~p.isDraft)

\* compute.ts:321
PrsWithAssignedReviewers(nonDraftPrs) ==
    SelectSeq(nonDraftPrs, LAMBDA p : Len(p.requestedReviewers.users) > 0)

\* compute.ts:326
PrsWithoutReviewers(nonDraftPrs) ==
    SelectSeq(nonDraftPrs, LAMBDA p : Len(p.requestedReviewers.users) = 0)

\* compute.ts:293-297, 299-303: the hours from creation to the event, sorted
HoursTo(prs, field) ==
    SortAscending([i \in 1..Len(prs) |-> (prs[i][field] - prs[i].createdAt) * 24])

\* compute.ts:305-309: the median of an array that is already sorted
DashboardMedian(arr) ==
    LET mid == Len(arr) \div 2
    IN IF Len(arr) = 0 THEN NULL
       ELSE IF Len(arr) % 2 = 0 THEN (arr[mid] + arr[mid + 1]) \div 2
       ELSE arr[mid + 1]

\* compute.ts:311-315
formatTime(hours) ==
    IF hours = NULL \/ hours = 0 THEN "N/A"
    ELSE IF hours < 24 THEN <<Round(hours, 1), "h">>
    ELSE <<Round(hours, 24), "d">>

\* compute.ts:281-345
computeDashboardData(prs, employees, reviewStatsData) ==
    LET communityPrs ==
            SelectSeq(prs, LAMBDA p : isCommunityPR(p.authorLogin, employees, p.authorAssociation))
        nonDraftPrs == NonDraftPrs(prs)
        communityPrsWithResponse ==
            SelectSeq(communityPrs, LAMBDA p : p.firstHumanResponseAt # NULL)
        communityPrsWithReview == SelectSeq(communityPrs, LAMBDA p : p.firstReviewAt # NULL)
        tffrTimes == HoursTo(communityPrsWithResponse, "firstHumanResponseAt")
        ttfrTimes == HoursTo(communityPrsWithReview, "firstReviewAt")
        stats == computeReviewerStats(prs, reviewStatsData, employees)
        prsWithAssignedReviewers == PrsWithAssignedReviewers(nonDraftPrs)
        prsWithoutReviewers == PrsWithoutReviewers(nonDraftPrs)
        pending[i \in 0..Len(stats)] ==
            IF i = 0 THEN 0 ELSE pending[i - 1] + stats[i].pendingCount
    IN [kpis |->
          [openCommunityPrs |-> Len(communityPrs),
           communityPrPercentage |->
               IF Len(prs) > 0 THEN <<Round(Len(communityPrs) * 100, Len(prs)), "%">>
               ELSE <<0, "%">>,
           medianResponseTime |-> formatTime(DashboardMedian(tffrTimes)),
           medianReviewTime |-> formatTime(DashboardMedian(ttfrTimes)),
           reviewerCompliance |->
               IF Len(nonDraftPrs) > 0
               THEN <<Round(Len(prsWithAssignedReviewers) * 100, Len(nonDraftPrs)), "%">>
               ELSE <<0, "%">>,
           pendingReviews |-> pending[Len(stats)],
           activeReviewers |->
               Len(SelectSeq(stats, LAMBDA r : r.pendingCount > 0 \/ r.completedTotal > 0)),
           prsWithoutReviewers |-> Len(prsWithoutReviewers)],
        prs |-> prs,
        reviewers |-> stats,
        lastUpdated |-> Now]

(* SpecDashboard: computeDashboardData, and computeReviewerStats, applied to
   lists of open pull requests that are drafts or not, with or without
   requested users and teams *)

\* the classifier the tests put in place of lib/employees
getAuthorType(authorLogin, employees, authorAssociation) ==
    IF authorLogin \in BotLogins THEN "bot"
    ELSE IF authorLogin \in employees THEN "employee"
    ELSE IF authorAssociation \in {"COLLABORATOR", "MEMBER", "OWNER"} THEN "maintainer"
    ELSE "community"

\* compute.ts:5-27: the first review of an employee is not before the first
\* review of anyone
DashboardFirsts == {<<NULL, NULL>>, <<NULL, 1>>, <<1, 1>>, <<2, 1>>}

\* the open pull requests transformPR can produce for these employees
DashboardPRs(employees) ==
    {DashboardPR(author[1], author[2], getAuthorType(author[1], employees, author[2]),
                 isDraft, users, teams, firsts[1], firsts[2]) :
        author \in {<<"carol", "NONE">>, <<"bob", "MEMBER">>},
        isDraft \in BOOLEAN,
        users \in {<<>>, <<"bob">>},
        teams \in {<<>>, <<"core">>},
        firsts \in DashboardFirsts}

DashboardReviews == {r \in StatReviews : r.reviewerLogin = "bob" /\ r.submittedAt = 1 /\ r.prNumber = 1}

DashboardRequests == {q \in StatRequests : q.reviewerLogin = "bob" /\ q.prNumber = 1}

InitDashboard ==
    /\ NoListing
    /\ pc = "input"
    /\ employeesSet \in StatEmployees
    /\ allPrs \in SeqsUpTo(DashboardPRs(employeesSet), MaxDashPrs)
    /\ statsInput \in
          {[completedReviews |-> c, reviewRequests |-> q] :
              c \in SeqsUpTo(DashboardReviews, 1),
              q \in SeqsUpTo(DashboardRequests, 1)}
    /\ reviewers = NULL
    /\ fn = ""
    /\ daysBack = 0
    /\ sinceDate = 0
    /\ completedReviews = <<>>
    /\ reviewRequests = <<>>
    /\ communityReviews = <<>>
    /\ cursor = NULL
    /\ hasNextPage = FALSE
    /\ pageCount = 0
    /\ prData = NoPage
    /\ requestLog = <<>>
    /\ served = 0
    /\ pr = NoNode

\* the hours are sorted where they stand: the pull requests are put in the
\* order of their first response
ComputeDashboardData_SortsInput ==
    /\ pc = "input"
    /\ pc' = "dashboard"
    /\ returned' = computeDashboardData(allPrs, employeesSet, statsInput)
    /\ allPrs' =
          LET sorted[i \in 0..Len(allPrs)] ==
                  IF i = 0 THEN <<>>
                  ELSE LET at == allPrs[i].firstHumanResponseAt
                       IN SelectSeq(sorted[i - 1], LAMBDA p : p.firstHumanResponseAt <= at)
                          \o <<allPrs[i]>>
                          \o SelectSeq(sorted[i - 1], LAMBDA p : p.firstHumanResponseAt > at)
          IN sorted[Len(allPrs)]
    /\ UNCHANGED <<fn, daysBack, sinceDate, completedReviews, reviewRequests,
                   communityReviews, cursor, hasNextPage, pageCount, prData,
                   requestLog, served, pr, employeesSet, statsInput, reviewers,
                   openPrs, orgs, orgIndex, repoPage, repositories, allRepos,
                   responses, calls, ui>>

\* compute.ts:281-345: the call returns the dashboard and leaves its
\* arguments as they were
ComputeDashboardData ==
    /\ pc = "input"
    /\ pc' = "dashboard"
    /\ returned' = computeDashboardData(allPrs, employeesSet, statsInput)
    /\ UNCHANGED <<fn, daysBack, sinceDate, completedReviews, reviewRequests,
                   communityReviews, cursor, hasNextPage, pageCount, prData,
                   requestLog, served, pr, statsVars, openPrs, orgs, orgIndex,
                   repoPage, repositories, allRepos, responses, calls, ui>>

NextDashboard ==
    \/ ComputeReviewerStats
    \/ ComputeDashboardData

SpecDashboard == InitDashboard /\ [][NextDashboard]_vars

---------------------------------------------------------------------------
(* What the claims say, in terms of the timeline that was delivered *)

Done == pc \in {"reduced", "returned"}

Indices(s) == 1..Len(s)

\* a request of a user, as the timeline shows it
IsRequestOf(e, login) == e.typename = "ReviewRequestedEvent" /\ e.login = login

\* a substantive, submitted review of a user, as the timeline shows it
IsReviewOf(e, login) ==
    /\ e.typename = "PullRequestReview"
    /\ e.login = login
    /\ e.at # NULL
    /\ e.state \in {"APPROVED", "CHANGES_REQUESTED", "COMMENTED"}

RequestsOf(node, login) == SelectSeq(node.timelineItems, LAMBDA e : IsRequestOf(e, login))

ReviewsOf(node, login) == SelectSeq(node.timelineItems, LAMBDA e : IsReviewOf(e, login))

\* the reviews of a user at or after a day
ReviewsSince(node, login, day) == SelectSeq(ReviewsOf(node, login), LAMBDA e : e.at >= day)

\* the emitted reviews and records of a user on a pull request
CompletedOf(number, login) ==
    SelectSeq(completedReviews, LAMBDA c : c.prNumber = number /\ c.reviewerLogin = login)

CompletedSince(number, login, day) ==
    SelectSeq(CompletedOf(number, login), LAMBDA c : c.submittedAt >= day)

RecordsOf(number, login) ==
    SelectSeq(reviewRequests, LAMBDA q : q.prNumber = number /\ q.reviewerLogin = login)

PrNumbers == {completedReviews[i].prNumber : i \in Indices(completedReviews)}
             \cup {reviewRequests[i].prNumber : i \in Indices(reviewRequests)}

Fulfilled(number, login) ==
    {i \in Indices(completedReviews) :
        /\ completedReviews[i].prNumber = number
        /\ completedReviews[i].reviewerLogin = login
        /\ completedReviews[i].requestedAt # NULL}

\* C1: for every (reviewer, pull request) pair at most one CompletedReview has
\* a non-null requestedAt.
C1_AtMostOneFulfilled ==
    \A number \in PrNumbers, login \in Logins : Cardinality(Fulfilled(number, login)) <= 1

\* a reviewer with one request inside the window and two reviews at or after
\* it: one of the two emitted reviews carries the request, the other null
C1_Witness ==
    /\ pc = "reduced"
    /\ \E login \in Logins :
        /\ Len(RequestsOf(pr, login)) >= 1
        /\ Len(CompletedSince(pr.number, login, RequestsOf(pr, login)[1].at)) >= 2
        /\ Cardinality(Fulfilled(pr.number, login)) = 1

\* C2: a non-null requestedAt of a CompletedReview is the requestedAt of a
\* ReviewRequestRecord of the same reviewer and pull request, is not later
\* than the review's submittedAt and not earlier than the window start.
C2_FulfilledHasRecord ==
    \A i \in Indices(completedReviews) :
        LET c == completedReviews[i]
        IN c.requestedAt # NULL =>
            /\ \E j \in Indices(reviewRequests) :
                /\ reviewRequests[j].reviewerLogin = c.reviewerLogin
                /\ reviewRequests[j].prNumber = c.prNumber
                /\ reviewRequests[j].requestedAt = c.requestedAt
            /\ c.requestedAt <= c.submittedAt
            /\ c.requestedAt >= sinceDate

C2_Witness ==
    /\ Done
    /\ \E i \in Indices(completedReviews) : completedReviews[i].requestedAt # NULL

\* the scenario of C3: one request of the reviewer, two or more substantive
\* reviews at or after it
C3_Scenario(login) ==
    /\ Len(RequestsOf(pr, login)) = 1
    /\ Len(ReviewsSince(pr, login, RequestsOf(pr, login)[1].at)) >= 2

\* the first of the reviews at or after the request carries the request time,
\* the later ones null, and each of them is emitted
C3_Outcome(login) ==
    LET requestedAt == RequestsOf(pr, login)[1].at
        given == ReviewsSince(pr, login, requestedAt)
        emitted == CompletedSince(pr.number, login, requestedAt)
    IN /\ Len(emitted) = Len(given)
       /\ \A k \in Indices(emitted) :
            /\ emitted[k].submittedAt = given[k].at
            /\ emitted[k].requestedAt = IF k = 1 THEN requestedAt ELSE NULL

\* C3 as stated: one request and two or more reviews after it: the first
\* review is emitted with the request time, the later ones with null, all of
\* them are emitted.
C3_AsStated ==
    pc = "reduced" => \A login \in Logins : C3_Scenario(login) => C3_Outcome(login)

\* C3, amended: the same, for a request made inside the lookback window.
C3_FirstReviewConsumes ==
    pc = "reduced" =>
        \A login \in Logins :
            (C3_Scenario(login) /\ RequestsOf(pr, login)[1].at >= sinceDate)
                => C3_Outcome(login)

C3_Witness ==
    /\ pc = "reduced"
    /\ \E login \in Logins :
        /\ C3_Scenario(login)
        /\ RequestsOf(pr, login)[1].at >= sinceDate
        /\ Len(CompletedOf(pr.number, login)) >= 2


\* the request time recorded for a reviewer on the pull request: that of the
\* reviewer's first request in the timeline
C4_Recorded(login) == RequestsOf(pr, login)[1].at

\* the reviews of a user submitted inside the window and before a day
C4_EarlyGiven(login, day) ==
    SelectSeq(ReviewsOf(pr, login), LAMBDA e : e.at >= sinceDate /\ e.at < day)

C4_EarlyEmitted(login, day) ==
    SelectSeq(CompletedOf(pr.number, login), LAMBDA c : c.submittedAt < day)

C5_Scenario(login) ==
    /\ Len(RequestsOf(pr, login)) >= 2
    /\ RequestsOf(pr, login)[2].at > RequestsOf(pr, login)[1].at
    /\ Len(ReviewsOf(pr, login)) >= 1
    /\ \A k \in Indices(ReviewsOf(pr, login)) :
            ReviewsOf(pr, login)[k].at >= RequestsOf(pr, login)[2].at

\* the review is emitted with T1 and the reviewer's single record carries T1
C5_Outcome(login) ==
    LET t1 == RequestsOf(pr, login)[1].at
    IN /\ Len(CompletedOf(pr.number, login)) >= 1
       /\ CompletedOf(pr.number, login)[1].requestedAt = t1
       /\ Len(RecordsOf(pr.number, login)) = 1
       /\ RecordsOf(pr.number, login)[1].requestedAt = t1

\* C5 as stated: requested at T1 and again at T2 > T1, reviewed after T2: the
\* CompletedReview and the single ReviewRequestRecord carry T1.
C5_AsStated ==
    pc = "reduced" => \A login \in Logins : C5_Scenario(login) => C5_Outcome(login)

\* C5, amended: the same, for a first request T1 inside the lookback window.
C5_FirstRequestWins ==
    pc = "reduced" =>
        \A login \in Logins :
            (C5_Scenario(login) /\ RequestsOf(pr, login)[1].at >= sinceDate)
                => C5_Outcome(login)

C5_Witness ==
    /\ pc = "reduced"
    /\ \E login \in Logins :
        /\ C5_Scenario(login)
        /\ RequestsOf(pr, login)[1].at >= sinceDate
        /\ CompletedOf(pr.number, login)[1].requestedAt < RequestsOf(pr, login)[2].at

\* the request times of a user that lie inside the window
C6_InWindow(login) == SelectSeq(RequestsOf(pr, login), LAMBDA e : e.at >= sinceDate)

\* C6: the request time retained for a reviewer (the ReviewRequestRecord, and
\* the time a fulfilling review carries) is the reviewer's earliest request
\* time inside the window, also when an earlier request precedes the window.
C6_EarliestInWindowRetained ==
    pc = "reduced" =>
        \A login \in Logins :
            LET inWindow == C6_InWindow(login)
                records == RecordsOf(pr.number, login)
            IN IF Len(inWindow) = 0
               THEN Len(records) = 0
               ELSE /\ Len(records) = 1
                    /\ records[1].requestedAt = inWindow[1].at
                    /\ \A i \in Fulfilled(pr.number, login) :
                          completedReviews[i].requestedAt = inWindow[1].at


\* the position in a page of the first pull request merged before the window,
\* or one past the page's end
C9_Cutoff(nodes) ==
    LET old == {i \in 1..Len(nodes) : nodes[i].mergedAt < sinceDate}
    IN IF old = {} THEN Len(nodes) + 1 ELSE CHOOSE i \in old : \A j \in old : i <= j

\* what the pull requests of a page before a position add to the two lists
C9_Contribution(nodes, upTo) ==
    LET sum[i \in 0..Len(nodes)] ==
            IF i = 0 THEN [completedReviews |-> <<>>, reviewRequests |-> <<>>]
            ELSE IF i < upTo
            THEN [completedReviews |->
                      sum[i - 1].completedReviews \o ProcessPR(nodes[i], sinceDate).completedReviews,
                  reviewRequests |->
                      sum[i - 1].reviewRequests \o ProcessPR(nodes[i], sinceDate).reviewRequests]
            ELSE sum[i - 1]
    IN sum[Len(nodes)]

\* C9: when a page of merged pull requests arrives, the pull requests before
\* the first one merged before the window start add their reviews and
\* requests to what earlier pages gave, that pull request and those after it
\* add nothing, and no further page is requested.
C9_CutoffEndsConsumption ==
    [][(pc = "awaiting" /\ fn = "merged" /\ pc' # "failed") =>
        LET nodes == prData'.nodes
            cutoff == C9_Cutoff(nodes)
        IN /\ completedReviews' =
                  completedReviews \o C9_Contribution(nodes, cutoff).completedReviews
           /\ reviewRequests' =
                  reviewRequests \o C9_Contribution(nodes, cutoff).reviewRequests
           /\ cutoff <= Len(nodes) => (pc' = "returned" /\ requestLog' = requestLog)]_vars

\* a page whose second pull request is merged before the window and is
\* followed by a third with a review: the first one's review is kept, the
\* call has returned though the server announced a next page
C9_Witness ==
    /\ pc = "returned"
    /\ fn = "merged"
    /\ Len(prData.nodes) = 3
    /\ C9_Cutoff(prData.nodes) = 2
    /\ Len(ReviewsOf(prData.nodes[3], "alice")) >= 1
    /\ prData.hasNextPage
    /\ Len(completedReviews) >= 1
    /\ \A i \in Indices(completedReviews) :
          completedReviews[i].prNumber = prData.nodes[1].number

\* one of the two fetchers that take a daysBack has been called
C10_Called == pc # "idle" /\ fn \in {"merged", "community"}

\* daysBack is a positive whole number of days
C10_PositiveInteger(halfDays) == halfDays > 0 /\ halfDays % 2 = 0

\* C10 as stated: a call with a daysBack that is not a positive integer has
\* failed, without a page request.
C10_AsStated ==
    (C10_Called /\ ~C10_PositiveInteger(daysBack)) => (pc = "failed" /\ requestLog = <<>>)

\* C10, amended: a call with a daysBack of zero or less has failed, without a
\* page request and with nothing collected; a call with a positive daysBack,
\* whole or fractional, has issued its first page request.
C10_NonPositiveFailsFast ==
    C10_Called =>
        IF daysBack <= 0
        THEN /\ pc = "failed"
             /\ requestLog = <<>>
             /\ completedReviews = <<>> /\ reviewRequests = <<>> /\ communityReviews = <<>>
        ELSE Len(requestLog) >= 1

C10_Witness == pc = "failed" /\ fn = "community" /\ daysBack <= 0 /\ requestLog = <<>>


\* the completed reviews of a reviewer handed to computeReviewerStats that
\* carry a request time, and those that carry none
C7_Requested(login) ==
    {i \in Indices(statsInput.completedReviews) :
        /\ statsInput.completedReviews[i].reviewerLogin = login
        /\ statsInput.completedReviews[i].requestedAt # NULL}

C8_Unrequested(login) ==
    {i \in Indices(statsInput.completedReviews) :
        /\ statsInput.completedReviews[i].reviewerLogin = login
        /\ statsInput.completedReviews[i].requestedAt = NULL}

\* for each reviewer and pull request the input holds at least as many
\* ReviewRequestRecords as completed reviews with a request time
C7_EveryFulfilmentHasRecord ==
    \A login \in StatLogins, number \in 1..MaxStatPrs :
        Cardinality({i \in C7_Requested(login) :
                        statsInput.completedReviews[i].prNumber = number})
        <= Cardinality({j \in Indices(statsInput.reviewRequests) :
                        /\ statsInput.reviewRequests[j].reviewerLogin = login
                        /\ statsInput.reviewRequests[j].prNumber = number})

\* C7 as stated: completedRequested <= requestedTotal for every reviewer of
\* the output, for every input.
C7_AsStated ==
    pc = "computed" =>
        \A i \in Indices(reviewers) :
            reviewers[i].completedRequested <= reviewers[i].requestedTotal

\* C7, amended: completedRequested <= requestedTotal for every reviewer of the
\* output, for every input that holds, for each reviewer and pull request, a
\* ReviewRequestRecord for each completed review with a request time (as the
\* lists of getRecentlyMergedPRsWithReviews do, by C1 and C2).
C7_RequestedWithinTotal ==
    (pc = "computed" /\ C7_EveryFulfilmentHasRecord) =>
        \A i \in Indices(reviewers) :
            /\ reviewers[i].completedRequested <= reviewers[i].requestedTotal
            /\ reviewers[i].completedRequested = Cardinality(C7_Requested(reviewers[i].name))

C7_Witness ==
    /\ pc = "computed"
    /\ C7_EveryFulfilmentHasRecord
    /\ \E i \in Indices(reviewers) :
        /\ reviewers[i].completedRequested = 1
        /\ reviewers[i].requestedTotal = 1
        /\ reviewers[i].completedUnrequested = 1

\* C8: completedTotal = completedRequested + completedUnrequested for every
\* reviewer of the output, the first counting the reviewer's completed reviews
\* with a request time and the second those without.
C8_TotalIsSum ==
    pc = "computed" =>
        \A i \in Indices(reviewers) :
            /\ reviewers[i].completedTotal
                  = reviewers[i].completedRequested + reviewers[i].completedUnrequested
            /\ reviewers[i].completedRequested = Cardinality(C7_Requested(reviewers[i].name))
            /\ reviewers[i].completedUnrequested = Cardinality(C8_Unrequested(reviewers[i].name))

C8_Witness ==
    /\ pc = "computed"
    /\ \E i \in Indices(reviewers) :
        /\ reviewers[i].completedRequested >= 1
        /\ reviewers[i].completedUnrequested >= 1
        /\ reviewers[i].completedTotal = 2


\* the cap on the page requests of the fetcher that was called
C11_Cap == IF fn = "open" THEN maxPrPagesPerRepo ELSE 5

\* C11: a call of getRecentlyMergedPRsWithReviews or getCommunityPRReviewStats
\* has issued at most 5 page requests, a call of getOpenPRsGraphQL at most
\* config.limits.maxPrPagesPerRepo, whatever the server answers; each request
\* follows a page received, and once the cap-th page is received the call has
\* returned.
C11_PaginationCapped ==
    (pc # "idle" /\ fn \in {"merged", "community", "open"}) =>
        /\ Len(requestLog) <= C11_Cap
        /\ pageCount <= Len(requestLog)
        /\ Len(requestLog) <= pageCount + 1
        /\ pageCount = C11_Cap => pc = "returned"

\* the server announced a next page with every one of its five pages
C11_Witness ==
    /\ pc = "returned"
    /\ fn = "merged"
    /\ pageCount = 5
    /\ Len(requestLog) = 5
    /\ prData.hasNextPage

\* C12: a page request that fails ends the call with the error: the request
\* is not issued again, no other page is requested, the call does not return
\* what it collected, and nothing follows the failure.
C12_FailureEndsFetch ==
    [][/\ pc # "failed"
       /\ (pc = "awaiting" /\ pageCount' = pageCount) =>
             /\ pc' = "failed"
             /\ requestLog' = requestLog
             /\ UNCHANGED <<completedReviews, reviewRequests, communityReviews, openPrs>>]_vars

\* the second page request fails after the first page gave a review
C12_Witness ==
    /\ pc = "failed"
    /\ fn = "merged"
    /\ pageCount = 1
    /\ Len(requestLog) = 2
    /\ Len(completedReviews) >= 1


\* the organizations, by position in the list, whose listing threw
C13_FailedOrgs == {responses[k].index : k \in {j \in Indices(responses) : ~responses[j].ok}}

\* the names of the active repositories the server delivered for the
\* organization at a position, in the order of delivery
C13_Delivered(i) ==
    LET names[k \in 0..Len(responses)] ==
            IF k = 0 THEN <<>>
            ELSE IF responses[k].index = i
                 THEN names[k - 1] \o
                      [n \in 1..Len(ActiveRepos(responses[k].data)) |->
                          ActiveRepos(responses[k].data)[n].full_name]
                 ELSE names[k - 1]
    IN names[Len(responses)]

\* what the organizations that succeeded delivered, in organization order
C13_Expected ==
    LET upTo[i \in 0..Len(orgs)] ==
            IF i = 0 THEN <<>>
            ELSE IF i \in C13_FailedOrgs THEN upTo[i - 1]
                 ELSE upTo[i - 1] \o C13_Delivered(i)
    IN upTo[Len(orgs)]

\* C13: getAllRepositoriesFromOrgs never fails; when it has returned, every
\* organization of the list was attempted, in the order of the list, and the
\* value returned is the names of the repositories of the organizations whose
\* listing did not throw, in organization order.
C13_FailedOrgSkipped ==
    fn = "orgs" =>
        /\ pc \in {"listing", "returned"}
        /\ \A j, k \in Indices(responses) : j <= k => responses[j].index <= responses[k].index
        /\ pc = "returned" =>
              /\ {responses[k].index : k \in Indices(responses)} = 1..Len(orgs)
              /\ returned = C13_Expected

\* the first organization delivered a page and then failed, the second
\* succeeded: only the second one's repository is returned
C13_Witness ==
    /\ fn = "orgs"
    /\ pc = "returned"
    /\ Len(orgs) = 2
    /\ C13_FailedOrgs = {1}
    /\ \E k \in Indices(responses) :
          responses[k].index = 1 /\ responses[k].ok /\ Len(ActiveRepos(responses[k].data)) >= 1
    /\ Len(returned) = 1
    /\ returned[1][1] = orgs[2]

\* the value returned carries a field that says the data is degraded; the
\* array of names that getAllRepositoriesFromOrgs returns has no field
C14_Flagged == fn = "route" /\ "error" \in DOMAIN returned

\* C14 as stated: when the listing of an organization failed, the value
\* returned holds what the others gave and a flag saying the data is degraded.
C14_AsStated ==
    (pc = "returned" /\ fn \in {"orgs", "route"} /\ C13_FailedOrgs # {}) => C14_Flagged


\* the submitted reviews of a user in a state that is not substantive
C15_OtherReviews(node, login) ==
    SelectSeq(node.timelineItems,
              LAMBDA e : /\ e.typename = "PullRequestReview"
                         /\ e.login = login
                         /\ e.at # NULL
                         /\ e.state \in {"PENDING", "DISMISSED"})

\* C15: the CompletedReviews of a reviewer are, one for one and in order, the
\* reviews of the timeline in state APPROVED, CHANGES_REQUESTED or COMMENTED
\* that fall in the window; a PENDING or DISMISSED review gives none and does
\* not take the request: the first substantive review at or after a request
\* inside the window is the one that carries it.
C15_OnlySubstantiveReviews ==
    pc = "reduced" =>
        \A login \in Logins :
            LET given == ReviewsSince(pr, login, sinceDate)
                emitted == CompletedOf(pr.number, login)
                requests == RequestsOf(pr, login)
            IN /\ Len(emitted) = Len(given)
               /\ \A i \in Indices(emitted) : emitted[i].submittedAt = given[i].at
               /\ (/\ Len(requests) >= 1
                   /\ requests[1].at >= sinceDate
                   /\ Len(ReviewsSince(pr, login, requests[1].at)) >= 1) =>
                      \E i \in Fulfilled(pr.number, login) :
                          /\ completedReviews[i].requestedAt = requests[1].at
                          /\ completedReviews[i].submittedAt
                                = ReviewsSince(pr, login, requests[1].at)[1].at

\* a request, then a PENDING or DISMISSED review, then a substantive one: a
\* single CompletedReview, and it carries the request
C15_Witness ==
    /\ pc = "reduced"
    /\ \E login \in Logins :
        /\ Len(RequestsOf(pr, login)) = 1
        /\ RequestsOf(pr, login)[1].at >= sinceDate
        /\ Len(C15_OtherReviews(pr, login)) = 1
        /\ C15_OtherReviews(pr, login)[1].at >= RequestsOf(pr, login)[1].at
        /\ Len(pr.timelineItems) = 3
        /\ pr.timelineItems[3].state \in {"APPROVED", "CHANGES_REQUESTED", "COMMENTED"}
        /\ pr.timelineItems[3].login = login
        /\ Len(CompletedOf(pr.number, login)) = 1
        /\ Cardinality(Fulfilled(pr.number, login)) = 1


\* the reviewer's entry in the list returned by computeReviewerStats
C16_InOutput(login) == \E i \in Indices(reviewers) : reviewers[i].name = login

\* the identity classifier accepts the login: an employee, or a maintainer
\* (the author of an open pull request with authorType maintainer, or the
\* author of a completed review with write access)
C16_Includable(login) ==
    \/ login \in employeesSet
    \/ \E i \in Indices(allPrs) :
          allPrs[i].authorLogin = login /\ allPrs[i].authorType = "maintainer"
    \/ \E i \in Indices(statsInput.completedReviews) :
          /\ statsInput.completedReviews[i].reviewerLogin = login
          /\ statsInput.completedReviews[i].authorAssociation
                \in {"COLLABORATOR", "MEMBER", "OWNER"}

C16_Pending(login) ==
    \E i \in Indices(allPrs) :
        \E k \in Indices(allPrs[i].requestedReviewers.users) :
            allPrs[i].requestedReviewers.users[k] = login

C16_Completed(login) ==
    \E i \in Indices(statsInput.completedReviews) :
        statsInput.completedReviews[i].reviewerLogin = login

C16_Requested(login) ==
    \E i \in Indices(statsInput.reviewRequests) :
        statsInput.reviewRequests[i].reviewerLogin = login

\* C16 as stated: a reviewer is in the output if and only if the classifier
\* accepts the login or the reviewer has a pending, completed or requested
\* activity.
C16_AsStated ==
    pc = "computed" =>
        \A login \in StatLogins :
            C16_InOutput(login) <=>
                (\/ C16_Includable(login)
                 \/ C16_Pending(login) \/ C16_Completed(login) \/ C16_Requested(login))

\* C17: a login that is neither an employee nor a maintainer and has only
\* review-request records (no pending request, no completed review) is not in
\* the output.
C17_RequestOnlyOutsiderDropped ==
    pc = "computed" =>
        \A login \in StatLogins :
            (/\ ~C16_Includable(login)
             /\ C16_Requested(login)
             /\ ~C16_Pending(login)
             /\ ~C16_Completed(login)) => ~C16_InOutput(login)

\* bob has a review request and nothing else and is not classified, while
\* alice is listed
C17_Witness ==
    /\ pc = "computed"
    /\ ~C16_Includable("bob")
    /\ C16_Requested("bob")
    /\ ~C16_Pending("bob")
    /\ ~C16_Completed("bob")
    /\ ~C16_InOutput("bob")
    /\ C16_InOutput("alice")


\* the logins in the order the three sources name them: the requested
\* reviewers of the open pull requests, the authors of the completed reviews,
\* the reviewers of the review requests
C18_Named ==
    LET pending[i \in 0..Len(allPrs)] ==
            IF i = 0 THEN <<>> ELSE pending[i - 1] \o allPrs[i].requestedReviewers.users
    IN <<pending[Len(allPrs)],
         [i \in Indices(statsInput.completedReviews) |->
             statsInput.completedReviews[i].reviewerLogin],
         [i \in Indices(statsInput.reviewRequests) |->
             statsInput.reviewRequests[i].reviewerLogin]>>

\* position of the first mention of a login over the three sources
C18_Discovery(login) ==
    LET all == C18_Named[1] \o C18_Named[2] \o C18_Named[3]
    IN CHOOSE k \in Indices(all) : all[k] = login /\ \A j \in 1..(k - 1) : all[j] # login

C18_Descending ==
    \A i, j \in Indices(reviewers) :
        i < j => reviewers[i].completedTotal >= reviewers[j].completedTotal

\* C18: the list is in descending order of completedTotal and reviewers with
\* the same completedTotal are in discovery order.
C18_AsStated ==
    pc = "computed" =>
        /\ C18_Descending
        /\ \A i, j \in Indices(reviewers) :
              (i < j /\ reviewers[i].completedTotal = reviewers[j].completedTotal) =>
                  C18_Discovery(reviewers[i].name) < C18_Discovery(reviewers[j].name)

\* the ReviewRequestRecords of a reviewer
C19_Records(login) ==
    {i \in Indices(statsInput.reviewRequests) :
        statsInput.reviewRequests[i].reviewerLogin = login}

C20_Hours(i) ==
    (statsInput.completedReviews[i].submittedAt
        - statsInput.completedReviews[i].requestedAt) * 24

C20_Samples(login) == {i \in C7_Requested(login) : C20_Hours(i) > 0}

\* the k-th smallest of the samples
C20_Ranked(login, k) ==
    LET samples == C20_Samples(login)
    IN CHOOSE h \in {C20_Hours(i) : i \in samples} :
          /\ Cardinality({i \in samples : C20_Hours(i) < h}) < k
          /\ Cardinality({i \in samples : C20_Hours(i) <= h}) >= k

\* C20: medianReviewTimeHours is null for a reviewer without a completed
\* review that has a request time and a positive duration; otherwise it is
\* the median of those durations in hours: the central one of an odd number,
\* the mean of the two central ones of an even number.
C20_MedianOfPositiveDurations ==
    pc = "computed" =>
        \A i \in Indices(reviewers) :
            LET n == Cardinality(C20_Samples(reviewers[i].name))
                login == reviewers[i].name
            IN IF n = 0 THEN reviewers[i].medianReviewTimeHours = NULL
               ELSE IF n % 2 = 1
               THEN reviewers[i].medianReviewTimeHours = C20_Ranked(login, (n + 1) \div 2)
               ELSE 2 * reviewers[i].medianReviewTimeHours
                       = C20_Ranked(login, n \div 2) + C20_Ranked(login, (n \div 2) + 1)

\* durations of 48 and 24 hours, in that order, give 36
C20_Witness ==
    /\ pc = "computed"
    /\ \E i \in Indices(reviewers) :
        /\ reviewers[i].medianReviewTimeHours = 36
        /\ reviewers[i].completedRequested = 2
        /\ statsInput.completedReviews[1].submittedAt
              - statsInput.completedReviews[1].requestedAt = 2

\* ---------------------------------------------------------------------------
\* C21 as stated: a reviewer with a user review request inside the window on
\* the processed pull request gets exactly one ReviewRequestRecord, reviewed
\* or not, and no reviewer ever gets two records for one pull request.
C21_RequestedInWindow(login) ==
    \E i \in Indices(pr.timelineItems) :
        IsRequestOf(pr.timelineItems[i], login) /\ pr.timelineItems[i].at >= sinceDate

C21_AsStated ==
    pc = "reduced" =>
        \A login \in Logins :
            /\ Len(RecordsOf(pr.number, login)) <= 1
            /\ C21_RequestedInWindow(login) => Len(RecordsOf(pr.number, login)) = 1

\* ---------------------------------------------------------------------------
\* C22 as stated: a re-request of an already requested reviewer is recorded as
\* a ReviewRequestRecord of its own: the reviewer has one record per request
\* made inside the window.
C22_Rerequested(login) == Len(RequestsOf(pr, login)) >= 2

C22_AsStated ==
    pc = "reduced" =>
        \A login \in Logins :
            C22_Rerequested(login) =>
                Len(RecordsOf(pr.number, login))
                    = Len(SelectSeq(RequestsOf(pr, login), LAMBDA e : e.at >= sinceDate))

\* C22, amended: a re-request is ignored for matching and adds no record: the
\* reviewer has at most one ReviewRequestRecord for the pull request, carrying
\* the first request's time, so that the pull request adds at most one to the
\* reviewer's requestedTotal, and no review is matched to a re-request.
C22_RerequestNotRecorded ==
    pc = "reduced" =>
        \A login \in Logins :
            C22_Rerequested(login) =>
                LET first == RequestsOf(pr, login)[1].at
                    records == RecordsOf(pr.number, login)
                    completed == CompletedOf(pr.number, login)
                IN /\ Len(records) <= 1
                   /\ \A i \in Indices(records) : records[i].requestedAt = first
                   /\ ReviewerOf(login, <<>>, completedReviews, reviewRequests).requestedTotal <= 1
                   /\ \A i \in Indices(completed) : completed[i].requestedAt \in {NULL, first}

C22_Witness ==
    /\ pc = "reduced"
    /\ \E login \in Logins :
        /\ C22_Rerequested(login)
        /\ RequestsOf(pr, login)[1].at >= sinceDate
        /\ RequestsOf(pr, login)[2].at > RequestsOf(pr, login)[1].at
        /\ Len(RecordsOf(pr.number, login)) = 1
        /\ ReviewerOf(login, <<>>, completedReviews, reviewRequests).requestedTotal = 1

\* ---------------------------------------------------------------------------
\* C23: getOpenPRsGraphQL starts from an empty result and adds, for every page
\* it consumes, exactly the OPEN pull requests of that page in page order, so
\* that what it returns is the OPEN pull requests of the consumed pages in
\* delivery order and never holds a CLOSED or MERGED one.
C23_OpenOf(nodes) ==
    LET open == {i \in Indices(nodes) : nodes[i].state = "OPEN"}
        rank(i) == Cardinality({j \in open : j <= i})
    IN [k \in 1..Cardinality(open) |-> nodes[CHOOSE i \in open : rank(i) = k]]

C23_InDeliveryOrder ==
    /\ \A i \in Indices(openPrs') : openPrs'[i].state = "OPEN"
    /\ \A i, j \in Indices(openPrs') : i < j => openPrs'[i].number < openPrs'[j].number

C23_Step ==
    /\ (pc = "idle" /\ fn' = "open") => openPrs' = <<>>
    /\ (fn = "open" /\ pc = "awaiting" /\ pc' # "failed")
            => openPrs' = openPrs \o C23_OpenOf(prData'.nodes)
    /\ (fn = "open" /\ pc = "awaiting" /\ pc' = "failed") => openPrs' = openPrs
    /\ fn' = "open" => C23_InDeliveryOrder

C23_ExactlyOpenInOrder == [][C23_Step]_vars

C23_Witness ==
    /\ fn = "open"
    /\ pc = "returned"
    /\ pageCount >= 2
    /\ served = 3
    /\ Len(openPrs) = 2
    /\ openPrs[1].number = 1
    /\ openPrs[2].number = 3

\* ---------------------------------------------------------------------------
\* C25: within one call of a pull-request fetcher the first page request
\* carries a null cursor, a further request is issued only on receipt of the
\* response to the previous one and carries that response's endCursor, at most
\* one request is ever unanswered, and no request follows a response whose
\* hasNextPage is false.
C25_Step ==
    /\ (pc = "idle" /\ pc' = "awaiting") => requestLog' = <<NULL>>
    /\ (pc # "idle" /\ requestLog' # requestLog) =>
            /\ pc = "awaiting"
            /\ Len(requestLog) = pageCount + 1
            /\ pageCount' = pageCount + 1
            /\ prData'.hasNextPage
            /\ requestLog' = Append(requestLog, prData'.endCursor)
    /\ pc' = "awaiting" => Len(requestLog') = pageCount' + 1
    /\ pc' = "returned" => Len(requestLog') = pageCount'

C25_SequentialCursorChain == [][C25_Step]_vars

C25_Witness ==
    /\ pc = "returned"
    /\ Len(requestLog) = 3
    /\ requestLog[1] = NULL
    /\ requestLog[2] # NULL
    /\ requestLog[3] \notin {NULL, requestLog[2]}
    /\ ~prData.hasNextPage

\* ---------------------------------------------------------------------------
\* C24 as stated: prsWithoutReviewers is the number of pull requests of the
\* input that have no requested reviewer.
C24_Unassigned(p) == p.requestedReviewers.users = <<>>

C24_Returned == pc = "dashboard"

C24_AsStated ==
    C24_Returned =>
        returned.kpis.prsWithoutReviewers
            = Cardinality({i \in Indices(allPrs) : C24_Unassigned(allPrs[i])})

\* C24, amended: prsWithoutReviewers is the number of pull requests of the
\* input that are not drafts and have no requested user reviewer.
C24_NonDraftWithoutReviewers ==
    C24_Returned =>
        returned.kpis.prsWithoutReviewers
            = Cardinality({i \in Indices(allPrs) :
                              ~allPrs[i].isDraft /\ C24_Unassigned(allPrs[i])})

C24_Witness ==
    /\ C24_Returned
    /\ Len(allPrs) = 2
    /\ allPrs[1].isDraft /\ C24_Unassigned(allPrs[1])
    /\ ~allPrs[2].isDraft /\ C24_Unassigned(allPrs[2])
    /\ returned.kpis.prsWithoutReviewers = 1

\* ---------------------------------------------------------------------------
\* C26: the request map and the fulfilled set belong to one pull request. Of
\* the pull requests of a page that are processed, one without a request for
\* a reviewer gives each of that reviewer's reviews a null requestedAt,
\* whatever was requested on the others, and one with a request inside the
\* window followed by a review gives a review that fulfils it, whatever the
\* reviewer fulfilled on the others.
C26_Processed(nodes) == {i \in Indices(nodes) : i < C9_Cutoff(nodes)}

C26_CompletedAfter(number, login) ==
    SelectSeq(completedReviews',
              LAMBDA c : c.prNumber = number /\ c.reviewerLogin = login)

C26_RequestedThenReviewed(node, login) ==
    \E i, j \in Indices(node.timelineItems) :
        /\ i < j
        /\ IsRequestOf(node.timelineItems[i], login)
        /\ node.timelineItems[i].at >= sinceDate
        /\ IsReviewOf(node.timelineItems[j], login)
        /\ node.timelineItems[j].at >= node.timelineItems[i].at

C26_Step ==
    (pc = "awaiting" /\ fn = "merged" /\ pc' # "failed") =>
        \A i \in C26_Processed(prData'.nodes) : \A login \in Logins :
            LET node == prData'.nodes[i]
                completed == C26_CompletedAfter(node.number, login)
            IN /\ Len(RequestsOf(node, login)) = 0 =>
                    \A k \in Indices(completed) : completed[k].requestedAt = NULL
               /\ C26_RequestedThenReviewed(node, login) =>
                    \E k \in Indices(completed) : completed[k].requestedAt # NULL

C26_ScopedToOnePullRequest == [][C26_Step]_vars

\* a page of three pull requests: alice requested and reviewing on the first,
\* only reviewing on the second, requested and reviewing on the third
C26_Witness ==
    /\ fn = "merged"
    /\ pc = "returned"
    /\ Len(prData.nodes) = 3
    /\ C9_Cutoff(prData.nodes) = 4
    /\ C26_RequestedThenReviewed(prData.nodes[1], "alice")
    /\ Len(RequestsOf(prData.nodes[2], "alice")) = 0
    /\ Len(ReviewsOf(prData.nodes[2], "alice")) = 1
    /\ C26_RequestedThenReviewed(prData.nodes[3], "alice")
    /\ Len(completedReviews) = 3
    /\ completedReviews[1].requestedAt # NULL
    /\ completedReviews[2].requestedAt = NULL
    /\ completedReviews[3].requestedAt # NULL
    /\ completedReviews[3].prNumber = prData.nodes[3].number

\* ---------------------------------------------------------------------------
\* what a call returns when it runs alone and is answered with these pages
C27_Alone(pages, since) ==
    LET run[i \in 0..Len(pages)] ==
            IF i = 0
            THEN [completedReviews |-> <<>>, reviewRequests |-> <<>>,
                  hasNextPage |-> TRUE, pageCount |-> 0]
            ELSE LET acc == run[i - 1]
                     result == MergedPage(pages[i].nodes, since, acc.completedReviews,
                                          acc.reviewRequests)
                 IN IF acc.hasNextPage /\ acc.pageCount < maxPages
                    THEN [completedReviews |-> result.completedReviews,
                          reviewRequests |-> result.reviewRequests,
                          hasNextPage |-> pages[i].hasNextPage /\ ~result.stopped,
                          pageCount |-> acc.pageCount + 1]
                    ELSE acc
    IN run[Len(pages)]

\* C27: of two calls of getRecentlyMergedPRsWithReviews whose page responses
\* arrive in any order, each returns the completedReviews and reviewRequests
\* that a call running alone returns on the responses this call received, and
\* returns after the same number of pages.
C27_ReturnsAsAlone ==
    \A repo \in TwoRepos :
        calls[repo].pc = "returned" =>
            LET call == calls[repo]
                alone == C27_Alone(call.pages, call.sinceDate)
            IN /\ call.completedReviews = alone.completedReviews
               /\ call.reviewRequests = alone.reviewRequests
               /\ alone.pageCount = Len(call.pages)
               /\ ~(alone.hasNextPage /\ alone.pageCount < maxPages)

\* one call has returned a requested review after two pages while the other,
\* with an unrequested review from its first page, awaits its second
C27_Witness ==
    /\ calls["sdk"].pc = "returned"
    /\ calls["sdk"].pageCount = 2
    /\ Len(calls["sdk"].completedReviews) = 1
    /\ calls["sdk"].completedReviews[1].requestedAt # NULL
    /\ Len(calls["sdk"].reviewRequests) = 1
    /\ calls["docs"].pc = "awaiting"
    /\ calls["docs"].pageCount = 1
    /\ Len(calls["docs"].completedReviews) = 1
    /\ calls["docs"].completedReviews[1].requestedAt = NULL
    /\ calls["docs"].reviewRequests = <<>>

\* ---------------------------------------------------------------------------
\* C28: a call of computeReviewerStats or of computeDashboardData leaves the
\* pull-request list, the completedReviews list and the reviewRequests list
\* with the same elements in the same order, and the dashboard hands the
\* pull-request list back as it got it.
C28_Step ==
    /\ allPrs' = allPrs
    /\ statsInput'.completedReviews = statsInput.completedReviews
    /\ statsInput'.reviewRequests = statsInput.reviewRequests
    /\ pc' = "dashboard" => returned'.prs = allPrs

C28_InputsUnchanged == [][C28_Step]_vars

\* computeDashboardData, and computeReviewerStats inside it, have run on two
\* community pull requests answered after two days and after one, in that
\* order: the median was taken from the sorted hours, the list is as it was
C28_Witness ==
    /\ pc = "dashboard"
    /\ Len(allPrs) = 2
    /\ \A i \in 1..2 : isCommunityPR(allPrs[i].authorLogin, employeesSet,
                                     allPrs[i].authorAssociation)
    /\ allPrs[1].firstHumanResponseAt = 2
    /\ allPrs[2].firstHumanResponseAt = 1
    /\ returned.kpis.medianResponseTime = <<2, "d">>
    /\ Len(statsInput.completedReviews) = 1
    /\ Len(statsInput.reviewRequests) = 1
    /\ Len(returned.reviewers) >= 1

\* ---------------------------------------------------------------------------
\* C29 as stated: two requests of the page were in flight at once, every
\* request has settled and none has failed: the data on display is the
\* response to the filters applied last.
C29_AsStated ==
    (ui.overlapped /\ ui.inFlight = <<>> /\ ui.failures = 0)
        => ui.data = Response(ui.appliedFilters)

\* ---------------------------------------------------------------------------
\* the ready-for-review time, as the timeline shows it
C30_Ready ==
    LET ready == SelectSeq(pr.timelineItems, LAMBDA e : e.typename = "ReadyForReviewEvent")
    IN IF Len(ready) > 0 THEN ready[1].at ELSE pr.createdAt

C30_RecordsOf(login) == SelectSeq(communityReviews, LAMBDA c : c.reviewerLogin = login)

\* C30: of the pull request it processes, getCommunityPRReviewStats emits at
\* most one record per reviewer; the record carries the time of the
\* reviewer's first substantive review of the timeline, and that time is
\* later than the ready-for-review time and not before the window start, so
\* that reviewTimeHours is positive.
C30_FirstReviewAfterReady ==
    (pc = "reduced" /\ fn = "community") =>
        /\ \A i \in Indices(communityReviews) : communityReviews[i].reviewerLogin \in Logins
        /\ \A login \in Logins :
            LET records == C30_RecordsOf(login)
                reviews == ReviewsOf(pr, login)
            IN /\ Len(records) <= 1
               /\ Len(records) = 1 =>
                    /\ Len(reviews) >= 1
                    /\ records[1].prNumber = pr.number
                    /\ records[1].firstReviewAt = reviews[1].at
                    /\ records[1].readyForReviewAt = C30_Ready
                    /\ reviews[1].at > C30_Ready
                    /\ reviews[1].at >= sinceDate
                    /\ records[1].reviewTimeHours = (reviews[1].at - C30_Ready) * 24
                    /\ records[1].reviewTimeHours > 0

\* marked ready a day after its creation, then reviewed twice by one reviewer
\* on different days: the record carries the first of the two reviews
C30_Witness ==
    /\ pc = "reduced"
    /\ fn = "community"
    /\ Len(pr.timelineItems) = 3
    /\ pr.timelineItems[1].typename = "ReadyForReviewEvent"
    /\ \E login \in Logins :
        /\ Len(ReviewsOf(pr, login)) = 2
        /\ ReviewsOf(pr, login)[1].at < ReviewsOf(pr, login)[2].at
        /\ Len(C30_RecordsOf(login)) = 1
        /\ C30_RecordsOf(login)[1].firstReviewAt = ReviewsOf(pr, login)[1].at
        /\ C30_RecordsOf(login)[1].reviewTimeHours = 24

===========================================================================
